---- MODULE Spec2Model ----
(***************************************************************************)
(* Nestium: panel <-> agent trust and relay layer.                         *)
(*                                                                         *)
(*   Spec        the panel relay (ServersGateway): one-time ws tokens,     *)
(*               handleConnection, proxyAll and its agent sub-sockets.     *)
(*   SpecAuth    the HMAC request signer (agent-client.ts) and the agent   *)
(*               verifier hook (hmacAuthHook).                             *)
(*   SpecCursor  the agent log cursor (updateSinceFromText).               *)
(*   SpecLogs    the agent log stream route and its attach loop.           *)
(*   SpecEnroll  node enrollment (NodesService.registerNode) and the       *)
(*               messages that carry node data.                            *)
(*   SpecConsole the agent console stream route and its stdin attach loop. *)
(*   SpecConsoleGateway  ServerConsoleGateway.proxyConsole.                *)
(*   SpecSign    two calls of agentSignedHeaders.                          *)
(*   SpecRelayLogs  one relay session and its logs channel.                *)
(*   SpecStatus  one relay session with status polls in flight.            *)
(*   SpecLoop    the agent log route's attach loop with its timers.        *)
(*   SpecFe      the frontend composable useServerSocket.                  *)
(***************************************************************************)
EXTENDS Integers, Sequences, FiniteSets, TLC

\* ------------------------------------------------------------------------
\* Bounds of the model
\* ------------------------------------------------------------------------
MaxTokens == 1
MaxConns == 2
MaxTicks == 2
MaxSockets == 2
MaxMsgs == 2      \* browser messages handled by one session

\* ------------------------------------------------------------------------
\* Program constants
\* ------------------------------------------------------------------------
WsTokenTtlMs == 60000

NULL == "null"
\* url.searchParams.get("token") when the parameter is absent
NoToken == -1
\* a raw token no POST /servers/:id/ws-token ever returned
BogusToken == 0

Conns == 1..MaxConns
RawTokens == 1..MaxTokens

\* Ids are opaque strings; user ids and server ids share the string type.
ServerTable ==
    [id \in {"a", "b"} |->
        CASE id = "a" -> [ownerId |-> "a", nodeId |-> "n1"]
          [] id = "b" -> [ownerId |-> "a", nodeId |-> "n1"]]
NodeTable == {"n1"}
SubUserTable == {[id |-> "u", serverId |-> "b"]}
UserIds == {"a", "u"}
ServerIdParams == {"a", "b"}
ConnUsers == {"a"}

Channels == {"logs", "status"}

\* ------------------------------------------------------------------------
\* State
\* ------------------------------------------------------------------------
VARIABLES
    now,        \* Date.now() of the panel, in ms
    ticks,      \* number of clock advances so far
    wsToken,    \* prisma.wsToken: set of rows
    minted,     \* number of randomToken() draws so far
    tokenResp,  \* responses of POST /servers/:id/ws-token seen by browsers
    conn,       \* handleConnection invocation per browser connection
    clientWs,   \* readyState of each browser socket
    sess,       \* proxyAll closure state per browser connection
    chan        \* agent sub-sockets per connection and channel

relayVars == <<now, ticks, wsToken, minted, tokenResp, conn, clientWs, sess, chan>>

VARIABLES
    impl,       \* which hmacAuthHook the agent runs
    identity,   \* the agent's data/identity.json, or NoIdentity
    phase,      \* "idle", "flight" (sent), "altered" (changed in flight), "done"
    sent,       \* the request as the panel's signer sent it
    wire,       \* the request as it reaches the agent
    alteration, \* what was changed in flight, "none" if nothing
    anow,       \* Date.now() of the agent when the hook runs
    verdict     \* outcome of the hook

authVars == <<impl, identity, phase, sent, wire, alteration, anow, verdict>>

VARIABLES
    lastSinceSec,  \* the log connection's cursor
    fed            \* the chunks onText has handled so far

cursorVars == <<lastSinceSec, fed>>

VARIABLES
    clog,   \* the container's log: the second of each line it has written
    lg      \* the agent's log stream connection and its attach loop

logVars == <<clog, lg>>

VARIABLES
    enroll,   \* prisma.nodeEnrollment: set of rows
    nodes,    \* prisma.node: set of rows
    reg,      \* registerNode invocations
    outbox    \* the last message about nodes that left the panel or the agent

enrollVars == <<enroll, nodes, reg, outbox>>

VARIABLES
    cons      \* the agent's console stream connection

consoleVars == <<cons>>

VARIABLES
    cgw       \* a session of ServerConsoleGateway (proxyConsole)

cgwVars == <<cgw>>

VARIABLES
    sg        \* two calls of agentSignedHeaders: their inputs and headers

signVars == <<sg>>

VARIABLES
    al        \* the agent's log stream connection: its loop, streams and timers

loopVars == <<al>>

VARIABLES
    fe        \* the browser client useServerSocket: its closure and sockets

feVars == <<fe>>

vars == <<relayVars, authVars, cursorVars, logVars, enrollVars, consoleVars, cgwVars,
          signVars, loopVars, feVars>>

\* what the actions of one part leave unchanged
notRelay ==
    <<authVars, cursorVars, logVars, enrollVars, consoleVars, cgwVars, signVars,
      loopVars, feVars>>
notAuth ==
    <<relayVars, cursorVars, logVars, enrollVars, consoleVars, cgwVars, signVars,
      loopVars, feVars>>
notCursor ==
    <<relayVars, authVars, logVars, enrollVars, consoleVars, cgwVars, signVars,
      loopVars, feVars>>
notLogs ==
    <<relayVars, authVars, enrollVars, consoleVars, cgwVars, signVars,
      loopVars, feVars>>
notEnroll ==
    <<relayVars, authVars, cursorVars, logVars, consoleVars, cgwVars, signVars,
      loopVars, feVars>>
notConsole ==
    <<relayVars, authVars, cursorVars, logVars, enrollVars, cgwVars, signVars,
      loopVars, feVars>>
notSign ==
    <<relayVars, authVars, cursorVars, logVars, enrollVars, consoleVars, cgwVars,
      loopVars, feVars>>
notLoop ==
    <<relayVars, authVars, cursorVars, logVars, enrollVars, consoleVars, cgwVars,
      signVars, feVars>>
notFe ==
    <<relayVars, authVars, cursorVars, logVars, enrollVars, consoleVars, cgwVars,
      signVars, loopVars>>
notCgw ==
    <<relayVars, authVars, cursorVars, logVars, enrollVars, consoleVars, signVars,
      loopVars, feVars>>

\* sha256Hex on raw tokens: a collision-free digest of its input
\* (servers.service.ts sha256Hex, servers.gateway.ts line 97).
sha256Hex(input) == <<"sha256", input>>

\* ------------------------------------------------------------------------
\* Token issuance
\* ------------------------------------------------------------------------

\* ServersService.assertServerAccess: "ok", or the exception it throws.
assertServerAccess(userId, serverId) ==
    IF userId = NULL THEN "ok"
    ELSE IF serverId \notin DOMAIN ServerTable THEN "NotFound"
    ELSE IF (\E su \in SubUserTable : su.id = userId /\ su.serverId = serverId)
            \/ ServerTable[serverId].ownerId # userId
         THEN "Forbidden"
         ELSE "ok"

\* ServersService.createWsToken(serverId, userId): the row it creates,
\* or the exception it throws.  token is the value randomToken() returns.
createWsTokenRow(serverId, userId, token, t) ==
    [tokenHash |-> sha256Hex(token), serverId |-> serverId,
     userId |-> userId, expiresAt |-> t + WsTokenTtlMs]

createWsToken(serverId, userId, token, t) ==
    IF serverId = NULL THEN [err |-> "PrismaValidation"]
    ELSE IF serverId \notin DOMAIN ServerTable THEN [err |-> "NotFound"]
    ELSE IF userId = NULL THEN [err |-> "PrismaValidation"]
    ELSE [err |-> "none", row |-> createWsTokenRow(serverId, userId, token, t)]

\* ServersController.createAsyncToken: POST /servers/:id/ws-token by user u
\* (NULL when the request carries no user) for server s.
createAsyncToken(u, s) ==
    /\ minted < MaxTokens
    /\ assertServerAccess(u, s) = "ok"
    /\ LET token == minted + 1
           r == createWsToken(u, s, token, now)
       IN /\ minted' = minted + 1
          /\ IF r.err = "none"
                THEN /\ wsToken' = wsToken \cup {r.row}
                     /\ tokenResp' = tokenResp \cup
                            {[token |-> token, serverId |-> s, userId |-> u, at |-> now]}
                ELSE UNCHANGED <<wsToken, tokenResp>>
    /\ UNCHANGED <<now, ticks, conn, clientWs, sess, chan>>
    /\ UNCHANGED notRelay

\* The clock of the panel advances.
Tick ==
    /\ ticks < MaxTicks
    /\ \E d \in {1, WsTokenTtlMs} : now' = now + d
    /\ ticks' = ticks + 1
    /\ UNCHANGED <<wsToken, minted, tokenResp, conn, clientWs, sess, chan>>
    /\ UNCHANGED notRelay

\* ------------------------------------------------------------------------
\* WebSocket objects (ws library readyState, with the handshake abort
\* that terminate()/close() start on a CONNECTING socket kept apart)
\* ------------------------------------------------------------------------
SockStates == {"NONE", "CONNECTING", "OPEN", "CLOSING", "ABORTING", "CLOSED"}

\* safeClose(ws): terminate() while CONNECTING, close() while OPEN,
\* nothing otherwise.
safeClose(st) ==
    CASE st = "CONNECTING" -> "ABORTING"
      [] st = "OPEN" -> "CLOSING"
      [] OTHER -> st

\* ws.close() called directly (error handlers, handleConnection).
wsClose(st) ==
    CASE st = "CONNECTING" -> "ABORTING"
      [] st = "OPEN" -> "CLOSING"
      [] OTHER -> st

Live(st) == st \in {"CONNECTING", "OPEN"}

\* disc counts the {type: "agent", status: "disconnected"} messages sent to
\* the browser for the channel, closes the 'close' events of the channel's
\* sockets that came while the browser socket was OPEN
NoChan ==
    [cur |-> 0, n |-> 0, timers |-> 0, fired |-> 0, disc |-> 0, closes |-> 0,
     st |-> [i \in 1..MaxSockets |-> "NONE"],
     got |-> [i \in 1..MaxSockets |-> FALSE]]

\* safeClose(agentLogsWs) / safeClose(agentStatusWs) on the variable's
\* current referent.
closeCur(k) ==
    IF k.cur = 0 THEN k ELSE [k EXCEPT !.st[k.cur] = safeClose(@)]

\* agentLogsWs?.close() in the 'error' / 'unexpected-response' handlers.
closeCurRaw(k) ==
    IF k.cur = 0 THEN k ELSE [k EXCEPT !.st[k.cur] = wsClose(@)]

\* new WebSocket(url, {headers, handshakeTimeout}) assigned to the variable.
newSocket(k) ==
    [k EXCEPT !.n = @ + 1, !.cur = k.n + 1, !.st[k.n + 1] = "CONNECTING"]

\* connectLogs / connectStatusStream: the closure's socket state afterwards.
connectLogsUnguarded(closed, k) ==
    newSocket(closeCur(k))

connectLogs(closed, k) ==
    IF closed THEN k ELSE newSocket(closeCur(k))

connectStatusStream(closed, k) ==
    IF closed THEN k ELSE newSocket(closeCur(k))

connectChannel(ch, closed, k) ==
    IF ch = "logs" THEN connectLogs(closed, k) ELSE connectStatusStream(closed, k)

\* a 'close' handler that sets the reconnect timer twice
onAgentCloseTwoTimers(ch, closed, k, i) ==
    IF ch = "status" /\ ~k.got[i] THEN k
    ELSE IF ~closed THEN [k EXCEPT !.timers = @ + 2] ELSE k

\* 'close' handler of agent socket i of a channel.
onAgentClose(ch, closed, k, i) ==
    IF ch = "status" /\ ~k.got[i] THEN k
    ELSE IF ~closed THEN [k EXCEPT !.timers = @ + 1] ELSE k

\* setAgent(channel, 'disconnected'): safeSend sends while the browser socket
\* is OPEN
setAgentDisconnected(k, readyState) ==
    IF readyState = "OPEN" THEN [k EXCEPT !.disc = @ + 1] ELSE k

\* the 'close' listener with the message sent after the early return
agentCloseListenerQuiet(ch, closed, k, i, readyState) ==
    IF ch = "status" /\ ~k.got[i] THEN k
    ELSE onAgentClose(ch, closed, setAgentDisconnected(k, readyState), i)

\* the 'close' listener of agent socket i: the message, then the reconnect
agentCloseListener(ch, closed, k, i, readyState) ==
    onAgentClose(ch, closed, setAgentDisconnected(k, readyState), i)

\* a 'close' event of a channel's socket is emitted
closeEmitted(k, readyState) ==
    IF readyState = "OPEN" THEN [k EXCEPT !.closes = @ + 1] ELSE k

\* The browser message being handled: pc is the await the handler is at,
\* delivered counts the POSTs the agent answered with 2xx, errors the
\* {type: "error"} messages sent to the browser.
NoCmd == [pc |-> "none", type |-> "none", data |-> "", delivered |-> 0, errors |-> 0]

\* order lists what the closure's closeAll did, in the order it did it;
\* nmsg counts the browser messages received; lastState is the closure's
\* variable, sentState the value of the last {type: "state"} message sent to
\* the browser ("none" before the first)
NoSess ==
    [started |-> FALSE, closed |-> FALSE, pollTimer |-> FALSE, order |-> <<>>,
     cmd |-> NoCmd, nmsg |-> 0, lastState |-> "unknown", sentState |-> "none",
     nlogs |-> 0, logsOut |-> <<>>,
     polls |-> [fresh |-> 0, stale |-> 0], applied |-> "none", staleWin |-> FALSE]

\* polls counts the pollStatus calls whose fetch has not settled: fresh ones,
\* and stale ones (a status message called setState after they were
\* issued); applied is the value of the last setState call and staleWin
\* tells that this call was that of a stale poll
MaxPolls == 2

\* nlogs counts the messages the logs sockets delivered to the relay, the
\* n-th being message n; logsOut lists the {type: "logs"} messages sent to
\* the browser
MaxLogMsgs == 3

\* the logs 'message' handler with the newest message put first
relayLogsNewestFirst(out, m, readyState) ==
    IF readyState = "OPEN" THEN <<m>> \o out ELSE out

\* agentLogsWs 'message': safeSend(clientWs, {type: 'logs', data}), which
\* sends while the browser socket is OPEN
relayLogs(out, m, readyState) ==
    IF readyState = "OPEN" THEN Append(out, m) ELSE out

\* the current socket of a channel is one that safeClose acts on
CurLive(k) == k.cur # 0 /\ Live(k.st[k.cur])

\* closeAll with the flag set after the sockets are closed
closeAllOrderFlagLast(s, ks, cw) ==
    (IF s.pollTimer THEN <<"clearInterval">> ELSE <<>>)
        \o (IF ks["logs"].cur # 0 /\ Live(ks["logs"].st[ks["logs"].cur])
            THEN <<"logs">> ELSE <<>>)
        \o (IF ks["status"].cur # 0 /\ Live(ks["status"].st[ks["status"].cur])
            THEN <<"status">> ELSE <<>>)
        \o (IF Live(cw.readyState) THEN <<"client">> ELSE <<>>)
        \o <<"closed">>

\* the statements of closeAll in the order of the code, those without
\* effect left out
closeAllOrder(s, ks, cw) ==
    <<"closed">>
        \o (IF s.pollTimer THEN <<"clearInterval">> ELSE <<>>)
        \o (IF CurLive(ks["logs"]) THEN <<"logs">> ELSE <<>>)
        \o (IF CurLive(ks["status"]) THEN <<"status">> ELSE <<>>)
        \o (IF Live(cw.readyState) THEN <<"client">> ELSE <<>>)

\* closeAll of proxyAll: the new closure state, sub-sockets and browser socket.
closeAll(s, ks, cw) ==
    IF s.closed THEN [s |-> s, ks |-> ks, cw |-> cw]
    ELSE [s |-> [s EXCEPT !.closed = TRUE, !.pollTimer = FALSE,
                          !.order = closeAllOrder(s, ks, cw)],
          ks |-> [ch \in Channels |-> [closeCur(ks[ch]) EXCEPT !.cur = 0]],
          cw |-> [cw EXCEPT !.readyState = safeClose(@),
                            !.code = IF cw.readyState = "OPEN" THEN 1000 ELSE @]]

\* clientWs.close(code, reason) / safeClose(clientWs, code, reason).
closeClient(cw, code) ==
    [cw EXCEPT !.readyState = safeClose(@),
               !.code = IF cw.readyState = "OPEN" THEN code ELSE @]

\* ------------------------------------------------------------------------
\* ServersGateway.handleConnection, one step per await
\* ------------------------------------------------------------------------
NoConn ==
    [pc |-> "idle", serverId |-> NULL, token |-> NoToken, user |-> NULL,
     found |-> {}, checkedAt |-> -1, outcome |-> "none"]

Finish(c, outcome, code) ==
    /\ conn' = [conn EXCEPT ![c].pc = "done", ![c].outcome = outcome,
                            ![c].checkedAt = IF conn[c].pc = "check" THEN now ELSE @]
    /\ clientWs' = [clientWs EXCEPT ![c] = closeClient(@, code)]

\* The upgrade arrives; runs up to the first await (wsToken.findUnique).
handleConnection(c, serverId, token, user) ==
    /\ conn[c].pc = "idle"
    /\ \A d \in Conns : d < c => conn[d].pc # "idle"
    /\ IF serverId = NULL \/ token = NoToken
          THEN /\ conn' = [conn EXCEPT ![c] =
                     [NoConn EXCEPT !.pc = "done", !.serverId = serverId,
                                    !.token = token, !.user = user,
                                    !.outcome = "Missing serverId/token"]]
               /\ clientWs' = [clientWs EXCEPT ![c] =
                     [readyState |-> "CLOSING", code |-> 1008]]
          ELSE /\ conn' = [conn EXCEPT ![c] =
                     [NoConn EXCEPT !.pc = "findUnique", !.serverId = serverId,
                                    !.token = token, !.user = user]]
               /\ clientWs' = [clientWs EXCEPT ![c] =
                     [readyState |-> "OPEN", code |-> 0]]
    /\ UNCHANGED <<now, ticks, wsToken, minted, tokenResp, sess, chan>>
    /\ UNCHANGED notRelay

\* prisma.wsToken.findUnique({where: {tokenHash}})
\* (the result is the set of matching rows: empty for null)
findUnique(table, tokenHash) ==
    {r \in table : r.tokenHash = tokenHash}

\* a lookup that takes the row out of the table as it reads it
HC_findAndDelete(c) ==
    /\ conn[c].pc = "findUnique"
    /\ conn' = [conn EXCEPT ![c].pc = "check",
                            ![c].found = findUnique(wsToken, sha256Hex(conn[c].token))]
    /\ wsToken' = {r \in wsToken : r.tokenHash # sha256Hex(conn[c].token)}
    /\ UNCHANGED <<now, ticks, minted, tokenResp, clientWs, sess, chan>>
    /\ UNCHANGED notRelay

HC_findUnique(c) ==
    /\ conn[c].pc = "findUnique"
    /\ conn' = [conn EXCEPT ![c].pc = "check",
                            ![c].found = findUnique(wsToken, sha256Hex(conn[c].token))]
    /\ UNCHANGED <<now, ticks, wsToken, minted, tokenResp, clientWs, sess, chan>>
    /\ UNCHANGED notRelay

\* The condition of line 100: the token is refused.
tokenInvalidNoExpiry(found, serverId, t) ==
    \/ found = {}
    \/ \E row \in found : row.serverId # serverId

tokenInvalid(found, serverId, t) ==
    \/ found = {}
    \/ \E row \in found : row.serverId # serverId
    \/ \E row \in found : row.expiresAt < t

\* The condition of line 105.
tokenUserMismatch(found, user) ==
    \E row \in found : row.userId # NULL /\ user # NULL /\ row.userId # user

HC_check(c) ==
    /\ conn[c].pc = "check"
    /\ IF tokenInvalid(conn[c].found, conn[c].serverId, now)
          THEN Finish(c, "Invalid token", 1008)
          ELSE IF tokenUserMismatch(conn[c].found, conn[c].user)
                  THEN Finish(c, "Token user mismatch", 1008)
                  ELSE /\ conn' = [conn EXCEPT ![c].pc = "delete", ![c].checkedAt = now]
                       /\ UNCHANGED clientWs
    /\ UNCHANGED <<now, ticks, wsToken, minted, tokenResp, sess, chan>>
    /\ UNCHANGED notRelay

\* prisma.wsToken.delete({where: {tokenHash}}): removes the row, and throws
\* (record to delete does not exist) when there is none.
prismaDeleteMany(table, tokenHash) ==
    [ok |-> TRUE, table |-> {r \in table : r.tokenHash # tokenHash}]

prismaDelete(table, tokenHash) ==
    IF \E r \in table : r.tokenHash = tokenHash
       THEN [ok |-> TRUE, table |-> {r \in table : r.tokenHash # tokenHash}]
       ELSE [ok |-> FALSE, table |-> table]

HC_delete(c) ==
    /\ conn[c].pc = "delete"
    /\ LET d == prismaDelete(wsToken, sha256Hex(conn[c].token))
       IN /\ wsToken' = d.table
          /\ IF d.ok
                THEN /\ conn' = [conn EXCEPT ![c].pc = "resolve"]
                     /\ UNCHANGED clientWs
                ELSE Finish(c, "error", 1011)
    /\ UNCHANGED <<now, ticks, minted, tokenResp, sess, chan>>
    /\ UNCHANGED notRelay

\* proxyAll: registers the browser listeners, starts the status poll and
\* opens the logs and status sub-sockets.
proxyAll(c) ==
    /\ sess' = [sess EXCEPT ![c] =
                  [NoSess EXCEPT !.started = TRUE, !.pollTimer = TRUE]]
    /\ chan' = [chan EXCEPT ![c] =
                  [ch \in Channels |-> connectChannel(ch, FALSE, NoChan)]]

\* server lookup, assertServerAccess, node lookup, then proxyAll.
HC_resolve(c) ==
    /\ conn[c].pc = "resolve"
    /\ LET sid == conn[c].serverId
       IN IF sid \notin DOMAIN ServerTable
             THEN Finish(c, "Server not found", 1008) /\ UNCHANGED <<sess, chan>>
          ELSE IF assertServerAccess(conn[c].user, sid) # "ok"
             THEN Finish(c, "error", 1011) /\ UNCHANGED <<sess, chan>>
          ELSE IF ServerTable[sid].nodeId \notin NodeTable
             THEN Finish(c, "Node not found", 1008) /\ UNCHANGED <<sess, chan>>
          ELSE /\ conn' = [conn EXCEPT ![c].pc = "done", ![c].outcome = "proxying"]
               /\ UNCHANGED clientWs
               /\ proxyAll(c)
    /\ UNCHANGED <<now, ticks, wsToken, minted, tokenResp>>
    /\ UNCHANGED notRelay

\* ------------------------------------------------------------------------
\* Events of a proxied session
\* ------------------------------------------------------------------------

\* A reconnect timer (setTimeout(connectLogs, 900) /
\* setTimeout(connectStatusStream, 1200)) fires.
TimerFire(c, ch) ==
    /\ chan[c][ch].timers > 0
    /\ sess[c].closed \/ chan[c][ch].n < MaxSockets
    /\ chan' = [chan EXCEPT ![c][ch] =
                  connectChannel(ch, sess[c].closed,
                                 [@ EXCEPT !.timers = @ - 1, !.fired = @ + 1])]
    /\ UNCHANGED <<now, ticks, wsToken, minted, tokenResp, conn, clientWs, sess>>
    /\ UNCHANGED notRelay

\* 'open' of agent socket i.
AgentOpen(c, ch, i) ==
    /\ chan[c][ch].st[i] = "CONNECTING"
    /\ chan' = [chan EXCEPT ![c][ch].st[i] = "OPEN"]
    /\ UNCHANGED <<now, ticks, wsToken, minted, tokenResp, conn, clientWs, sess>>
    /\ UNCHANGED notRelay

\* type ServerState
ServerStates == {"unknown", "starting", "running", "stopped", "crashed"}

\* what the agent's status socket can carry: JSON objects with their value
\* and status members ("" when the member is missing), and text that is no
\* JSON with the state words it includes
StatusTexts ==
    {[json |-> TRUE, value |-> "running", status |-> "", words |-> {}],
     [json |-> TRUE, value |-> "paused", status |-> "", words |-> {}],
     [json |-> TRUE, value |-> "", status |-> "stopped", words |-> {}],
     [json |-> TRUE, value |-> "", status |-> "", words |-> {}],
     [json |-> FALSE, value |-> "", status |-> "", words |-> {"stopped"}],
     [json |-> FALSE, value |-> "", status |-> "", words |-> {"paused"}]}

\* the value the status 'message' handler passes to setState ("none" when it
\* does not call it)
statusMessageState(t) ==
    IF t.json
    THEN IF t.value # "" THEN t.value
         ELSE IF t.status # "" THEN t.status
         ELSE "none"
    ELSE IF "running" \in t.words THEN "running"
         ELSE IF "starting" \in t.words THEN "starting"
         ELSE IF "stopped" \in t.words THEN "stopped"
         ELSE IF "crashed" \in t.words THEN "crashed"
         ELSE "none"

\* bodies of the agent's answer to GET /v1/servers/:id/status: s is the
\* first of state, status, lifecycle, running, isRunning that is there
\* ("" when none is, or the body is no JSON, or ok is not true)
PollBodies ==
    {[ok |-> TRUE, s |-> "running"], [ok |-> TRUE, s |-> "online"],
     [ok |-> TRUE, s |-> "offline"], [ok |-> TRUE, s |-> "exited"],
     [ok |-> TRUE, s |-> ""], [ok |-> FALSE, s |-> "running"]}

\* the value pollStatus passes to setState ("none" when it does not call it)
pollStatusState(json) ==
    IF ~json.ok \/ json.s = "" THEN "none"
    ELSE LET normalized == IF json.s = "online" THEN "running"
                           ELSE IF json.s = "offline" THEN "stopped"
                           ELSE json.s
         IN  IF normalized \in ServerStates THEN normalized ELSE "none"

\* setState(v): safeSend sends while the browser socket is OPEN
setState(s, v, readyState) ==
    IF v = "none" THEN s
    ELSE [s EXCEPT !.lastState = v,
                   !.sentState = IF readyState = "OPEN" THEN v ELSE @]

\* a call setState(v) is recorded: the polls in flight become stale when it
\* is that of a status message
applied(s, v, push, stale) ==
    IF v = "none" THEN s
    ELSE [s EXCEPT !.applied = v,
                   !.staleWin = stale,
                   !.polls = IF push THEN [fresh |-> 0, stale |-> @.stale + @.fresh]
                             ELSE @]

\* 'message' of a status socket: gotAnyMessage = true, then the state
AgentStatusMessage(c, i, t) ==
    /\ chan[c]["status"].st[i] = "OPEN"
    /\ chan' = [chan EXCEPT ![c]["status"].got[i] = TRUE]
    /\ sess' = [sess EXCEPT ![c] =
                  applied(setState(@, statusMessageState(t), clientWs[c].readyState),
                          statusMessageState(t), TRUE, FALSE)]
    /\ UNCHANGED <<now, ticks, wsToken, minted, tokenResp, conn, clientWs>>
    /\ UNCHANGED notRelay

\* the fetch of a pollStatus call settles with an answer of the agent
PollStatus(c, json) ==
    /\ sess[c].started
    /\ sess' = [sess EXCEPT ![c] =
                  applied(setState(@, pollStatusState(json), clientWs[c].readyState),
                          pollStatusState(json), FALSE, FALSE)]
    /\ UNCHANGED <<now, ticks, wsToken, minted, tokenResp, conn, clientWs, chan>>
    /\ UNCHANGED notRelay

\* pollStatus is called (by proxyAll itself, then by the interval until
\* closeAll clears it) and runs to its `await fetch(...)`
PollIssue(c) ==
    /\ sess[c].started
    /\ sess[c].pollTimer
    /\ sess[c].polls.fresh + sess[c].polls.stale < MaxPolls
    /\ sess' = [sess EXCEPT ![c].polls.fresh = @ + 1]
    /\ UNCHANGED <<now, ticks, wsToken, minted, tokenResp, conn, clientWs, chan>>
    /\ UNCHANGED notRelay

pollSettledIfFresh(s, json, stale, readyState) ==
    IF stale THEN s ELSE setState(s, pollStatusState(json), readyState)

\* the rest of pollStatus once its fetch has settled with the body json
pollSettled(s, json, stale, readyState) ==
    setState(s, pollStatusState(json), readyState)

\* the fetch of a poll in flight settles
PollArrive(c, stale, json) ==
    /\ IF stale THEN sess[c].polls.stale > 0 ELSE sess[c].polls.fresh > 0
    /\ LET s0 == IF stale THEN [sess[c] EXCEPT !.polls.stale = @ - 1]
                          ELSE [sess[c] EXCEPT !.polls.fresh = @ - 1]
       IN  sess' = [sess EXCEPT ![c] =
                      applied(pollSettled(s0, json, stale, clientWs[c].readyState),
                              pollStatusState(json), FALSE, stale)]
    /\ UNCHANGED <<now, ticks, wsToken, minted, tokenResp, conn, clientWs, chan>>
    /\ UNCHANGED notRelay

\* The handshake of agent socket i fails (refused, rejected, timed out, or
\* aborted by terminate()): 'error' then 'close' in the same tick.
AgentFail(c, ch, i) ==
    /\ chan[c][ch].st[i] \in {"CONNECTING", "ABORTING"}
    /\ LET k0 == [chan[c][ch] EXCEPT !.st[i] = "CLOSING"]
           k1 == closeCurRaw(k0)
           k2 == closeEmitted([k1 EXCEPT !.st[i] = "CLOSED"], clientWs[c].readyState)
       IN chan' = [chan EXCEPT ![c][ch] =
                     agentCloseListener(ch, sess[c].closed, k2, i, clientWs[c].readyState)]
    /\ UNCHANGED <<now, ticks, wsToken, minted, tokenResp, conn, clientWs, sess>>
    /\ UNCHANGED notRelay

\* 'error' of an established agent socket.
AgentError(c, ch, i) ==
    /\ chan[c][ch].st[i] = "OPEN"
    /\ chan' = [chan EXCEPT ![c][ch] = closeCurRaw([@ EXCEPT !.st[i] = "CLOSING"])]
    /\ UNCHANGED <<now, ticks, wsToken, minted, tokenResp, conn, clientWs, sess>>
    /\ UNCHANGED notRelay

\* 'close' of agent socket i.
AgentClose(c, ch, i) ==
    /\ chan[c][ch].st[i] \in {"OPEN", "CLOSING"}
    /\ chan' = [chan EXCEPT ![c][ch] =
                  agentCloseListener(ch, sess[c].closed,
                      closeEmitted([@ EXCEPT !.st[i] = "CLOSED"], clientWs[c].readyState),
                      i, clientWs[c].readyState)]
    /\ UNCHANGED <<now, ticks, wsToken, minted, tokenResp, conn, clientWs, sess>>
    /\ UNCHANGED notRelay

\* 'message' of logs socket i (a socket that is closing still delivers
\* the frames it has received)
AgentLogsMessage(c, i) ==
    /\ chan[c]["logs"].st[i] \in {"OPEN", "CLOSING"}
    /\ sess[c].nlogs < MaxLogMsgs
    /\ sess' = [sess EXCEPT ![c].nlogs = @ + 1,
                            ![c].logsOut = relayLogs(@, sess[c].nlogs + 1,
                                                     clientWs[c].readyState)]
    /\ UNCHANGED <<now, ticks, wsToken, minted, tokenResp, conn, clientWs, chan>>
    /\ UNCHANGED notRelay

\* The listeners proxyAll registered on the browser socket run closeAll.
RunListeners(c, cw) ==
    IF sess[c].started
       THEN LET r == closeAll(sess[c], chan[c], cw)
            IN /\ sess' = [sess EXCEPT ![c] = r.s]
               /\ chan' = [chan EXCEPT ![c] = r.ks]
               /\ clientWs' = [clientWs EXCEPT ![c] = r.cw]
       ELSE /\ clientWs' = [clientWs EXCEPT ![c] = cw]
            /\ UNCHANGED <<sess, chan>>

\* 'close' of the browser socket.
BrowserClose(c) ==
    /\ clientWs[c].readyState \in {"OPEN", "CLOSING"}
    /\ RunListeners(c, [clientWs[c] EXCEPT !.readyState = "CLOSED"])
    /\ UNCHANGED <<now, ticks, wsToken, minted, tokenResp, conn>>
    /\ UNCHANGED notRelay

\* 'error' of the browser socket.
BrowserError(c) ==
    /\ clientWs[c].readyState = "OPEN"
    /\ RunListeners(c, [clientWs[c] EXCEPT !.readyState = "CLOSING"])
    /\ UNCHANGED <<now, ticks, wsToken, minted, tokenResp, conn>>
    /\ UNCHANGED notRelay

\* ------------------------------------------------------------------------
\* Browser messages of a proxied session
\* ------------------------------------------------------------------------
\* frames a browser sends: a command, a command of white space only, a ping,
\* and a frame that is no JSON
BrowserMsgs ==
    {[type |-> "cmd", data |-> "say hi"], [type |-> "cmd", data |-> " "],
     [type |-> "ping", data |-> ""], [type |-> "raw", data |-> "say hi"]}

\* String(msg.data ?? '').trim()
trim(data) == IF data = " " THEN "" ELSE data

\* clientWs 'message' handler up to its first await
onClientMessage(closed, msg) ==
    LET ignored == [NoCmd EXCEPT !.pc = "done", !.type = msg.type, !.data = msg.data]
    IN  IF closed THEN ignored
        ELSE IF msg.type = "raw" THEN ignored
        ELSE IF msg.type = "cmd"
             THEN IF trim(msg.data) = "" THEN ignored
                  ELSE [ignored EXCEPT !.pc = "access", !.data = trim(msg.data)]
             ELSE ignored

\* A frame of the browser arrives.
ClientMessage(c, msg) ==
    /\ sess[c].started
    /\ clientWs[c].readyState = "OPEN"
    /\ sess[c].nmsg < MaxMsgs
    /\ sess[c].cmd.pc \in {"none", "done", "unhandled"}
    /\ sess' = [sess EXCEPT ![c].nmsg = @ + 1,
                            ![c].cmd = onClientMessage(sess[c].closed, msg)]
    /\ UNCHANGED <<now, ticks, wsToken, minted, tokenResp, conn, clientWs, chan>>
    /\ UNCHANGED notRelay

\* `await this.serverService.assertServerAccess(...)` of the handler returns
\* or throws: r = "settles" when its queries answer, "rejects" when a prisma
\* query of it fails (none is made for a null user).  The handler is an
\* async listener with no try around the await: when the await throws, the
\* promise of the listener is rejected and nothing handles it ("unhandled").
Cmd_assertServerAccess(c, r) ==
    /\ sess[c].cmd.pc = "access"
    /\ r = "rejects" => conn[c].user # NULL
    /\ sess' = [sess EXCEPT ![c].cmd.pc =
                  IF r = "settles"
                     /\ assertServerAccess(conn[c].user, conn[c].serverId) = "ok"
                  THEN "fetch" ELSE "unhandled"]
    /\ UNCHANGED <<now, ticks, wsToken, minted, tokenResp, conn, clientWs, chan>>
    /\ UNCHANGED notRelay

\* the end of the handler: ok is what sendCommandToAgent(cmd).catch(() =>
\* false) gave, readyState the browser socket's
reportCommand(cmd, ok, readyState) ==
    IF ok THEN [cmd EXCEPT !.pc = "done", !.delivered = @ + 1]
    ELSE IF readyState = "OPEN"
         THEN [cmd EXCEPT !.pc = "done", !.errors = @ + 1]
         ELSE [cmd EXCEPT !.pc = "done"]

\* sendCommandToAgent settles: the agent answered 2xx ("ok"), answered
\* otherwise ("notok"), or fetch threw ("throws").
Cmd_sendCommandToAgent(c, r) ==
    /\ sess[c].cmd.pc = "fetch"
    /\ sess' = [sess EXCEPT ![c].cmd =
                  reportCommand(@, r = "ok", clientWs[c].readyState)]
    /\ UNCHANGED <<now, ticks, wsToken, minted, tokenResp, conn, clientWs, chan>>
    /\ UNCHANGED notRelay

\* ------------------------------------------------------------------------
\* Agent log route: the since-cursor (apps/agent/index.ts)
\* ------------------------------------------------------------------------
MaxLines == 2     \* lines per chunk
MaxChunks == 2    \* chunks handled by one log connection
MaxSec == 3       \* timestamps run over seconds 1..MaxSec

\* `let lastSinceSec: number | null = null`
NoSince == -1

\* Number.NaN, the result of Date.parse on text that is no date
NaN == -1

\* A line of log text.  kind says what the line starts with:
\*   "iso"     an RFC 3339 timestamp with three fraction digits, a space, text
\*   "nano"    Docker's timestamp with nine fraction digits, a space, text
\*   "plain"   a word that is no date, a space, text
\*   "nospace" a line without any space (the empty line included)
\*   "lead"    a line whose first character is the space
\* ms is the instant the timestamp denotes, in milliseconds.
IsoLine(ms) == [kind |-> "iso", ms |-> ms]
NanoLine(ms) == [kind |-> "nano", ms |-> ms]
PlainLine == [kind |-> "plain", ms |-> 0]
NoSpaceLine == [kind |-> "nospace", ms |-> 0]
LeadSpaceLine == [kind |-> "lead", ms |-> 0]

LogLines ==
    {IsoLine(1000 * sec + 250) : sec \in 1..MaxSec}
        \cup {NanoLine(2750), PlainLine, NoSpaceLine, LeadSpaceLine}

\* text.replace(/\r/g, "").split("\n"): a text is the sequence of its lines
RECURSIVE SeqsUpTo(_, _)
SeqsUpTo(S, n) ==
    IF n = 0 THEN {<<>>}
    ELSE LET shorter == SeqsUpTo(S, n - 1)
         IN  shorter \cup {Append(t, x) : t \in {u \in shorter : Len(u) = n - 1}, x \in S}

LogTexts == SeqsUpTo(LogLines, MaxLines) \ {<<>>}

\* ln.indexOf(" ")
indexOfSpace(ln) ==
    CASE ln.kind = "nospace" -> -1
      [] ln.kind = "lead" -> 0
      [] ln.kind = "plain" -> 5
      [] ln.kind = "iso" -> 24
      [] ln.kind = "nano" -> 30

\* ln.slice(0, space)
sliceToSpace(ln) == [kind |-> ln.kind, ms |-> ln.ms]

\* ts.replace(/\.(\d{3})\d+Z$/, ".$1Z"): keeps three fraction digits
cleanFraction(ts) ==
    IF ts.kind = "nano" THEN [kind |-> "iso", ms |-> ts.ms] ELSE ts

\* Date.parse(cleaned)
DateParse(cleaned) == IF cleaned.kind = "iso" THEN cleaned.ms ELSE NaN

\* one turn of the for loop of updateSinceFromText
updateSinceLine(cur, ln) ==
    IF indexOfSpace(ln) <= 0 THEN cur
    ELSE LET ms == DateParse(cleanFraction(sliceToSpace(ln)))
         IN  IF ms = NaN THEN cur ELSE ms \div 1000

RECURSIVE updateSinceFromText(_, _)
updateSinceFromText(cur, text) ==
    IF text = <<>> THEN cur
    ELSE updateSinceFromText(updateSinceLine(cur, Head(text)), Tail(text))

\* onText of attachOnce: the handler of every chunk of the log stream
onText(text) ==
    /\ Len(fed) < MaxChunks
    /\ lastSinceSec' = updateSinceFromText(lastSinceSec, text)
    /\ fed' = Append(fed, text)
    /\ UNCHANGED notCursor

CursorIdle ==
    /\ lastSinceSec = NoSince
    /\ fed = <<>>

\* ------------------------------------------------------------------------
\* Agent log stream route GET /v1/servers/:id/logs/stream and its attach
\* loop (apps/agent/index.ts)
\* ------------------------------------------------------------------------
MaxEmit == 3       \* lines the container writes
MaxAttach == 2     \* attaches of one connection
MaxLogConns == 2   \* connections the panel opens in one browser session

\* parseTail(rawUrl, 100)
DefaultTail == 100
\* `n <= 5000`
TailLimit == 5000

\* the tail parameter of the connection's URL: absent, a number, or text
\* that is no number
TailAbsent == [k |-> "absent", v |-> 0]
TailNum(n) == [k |-> "num", v |-> n]
TailNaN == [k |-> "nan", v |-> 0]
TailParams == {TailAbsent, TailNum(DefaultTail), TailNum(0), TailNum(1),
               TailNum(-1), TailNum(TailLimit + 1), TailNaN}

parseTail(t, defaultTail) ==
    IF t.k = "nan" THEN defaultTail
    ELSE LET n == IF t.k = "absent" THEN defaultTail ELSE t.v
         IN  IF n >= 0 /\ n <= TailLimit THEN n ELSE defaultTail

\* opts of container.logs without a cursor value in it
NoOpts == [since |-> NoSince, tail |-> -1]

\* the options attachOnce always passes the configured tail with
attachOptsTailOnly(cursor, tail) == [since |-> NoSince, tail |-> tail]

\* the options attachOnce passes to container.logs: `if (lastSinceSec)`
attachOpts(cursor, tail) ==
    IF cursor # NoSince /\ cursor # 0
    THEN [since |-> cursor, tail |-> 0]
    ELSE [since |-> NoSince, tail |-> tail]

Max(a, b) == IF a > b THEN a ELSE b

\* What the stream of container.logs({follow, since, tail}) starts with: of
\* the lines written so far whose time is not before since, the last tail
\* ones (the indices of the lines, oldest first).
dockerBacklog(log, opts) ==
    LET fromSince == IF opts.since = NoSince THEN 1
                     ELSE Len(log) + 1 -
                            Cardinality({i \in 1..Len(log) : log[i] >= opts.since})
        from == Max(fromSince, Len(log) + 1 - opts.tail)
    IN  [i \in 1..(Len(log) + 1 - from) |-> from + i - 1]

\* the connection: pc is where the attach loop stands ("none": no
\* connection), queue the lines the attached stream has not delivered yet,
\* sent the lines sent to the panel during the browser session
NoLogConn ==
    [conns |-> 0, pc |-> "none", tail |-> 0, opts |-> NoOpts, nattach |-> 0,
     queue |-> <<>>, sent |-> <<>>]

\* The panel's connectLogs opens the stream: the route handler runs up to
\* the first attachOnce.
LogsConnect(t) ==
    /\ lg.pc = "none"
    /\ lg.conns < MaxLogConns
    /\ lg' = [lg EXCEPT !.conns = @ + 1, !.pc = "attach", !.tail = parseTail(t, DefaultTail),
                        !.opts = NoOpts, !.nattach = 0, !.queue = <<>>]
    /\ lastSinceSec' = NoSince
    /\ UNCHANGED <<clog, fed>>
    /\ UNCHANGED notLogs

\* attachOnce up to the callback of container.logs: err says whether the
\* call failed
AttachOnce(err) ==
    /\ lg.pc = "attach"
    /\ lg.nattach < MaxAttach
    /\ LET opts == attachOpts(lastSinceSec, lg.tail)
       IN  lg' = [lg EXCEPT !.nattach = @ + 1, !.opts = opts,
                            !.pc = IF err THEN "sleep" ELSE "streaming",
                            !.queue = IF err THEN <<>> ELSE dockerBacklog(clog, opts)]
    /\ UNCHANGED <<clog, cursorVars>>
    /\ UNCHANGED notLogs

\* the line of the container's log at index i, as the stream carries it
\* (timestamps: true)
streamLine(log, i) == NanoLine(1000 * log[i] + 250)

\* 'data' of the attached stream: onText handles a chunk of n lines
LogStreamData(n) ==
    /\ lg.pc = "streaming"
    /\ n <= Len(lg.queue)
    /\ LET idx == SubSeq(lg.queue, 1, n)
           text == [i \in 1..n |-> streamLine(clog, idx[i])]
       IN  /\ lastSinceSec' = updateSinceFromText(lastSinceSec, text)
           /\ fed' = Append(fed, text)
           /\ lg' = [lg EXCEPT !.queue = SubSeq(@, n + 1, Len(@)),
                               !.sent = @ \o idx]
    /\ UNCHANGED clog
    /\ UNCHANGED notLogs

\* 'end' or 'error' of the stream, or the inactivity timer destroys it:
\* attachOnce resolves, the loop sleeps
LogStreamEnd ==
    /\ lg.pc = "streaming"
    /\ lg' = [lg EXCEPT !.pc = "sleep", !.queue = <<>>]
    /\ UNCHANGED <<clog, cursorVars>>
    /\ UNCHANGED notLogs

\* `await sleep(800)` of the loop is over
LogSleepDone ==
    /\ lg.pc = "sleep"
    /\ lg' = [lg EXCEPT !.pc = "attach"]
    /\ UNCHANGED <<clog, cursorVars>>
    /\ UNCHANGED notLogs

\* The agent side of the connection closes (the panel's socket dropped):
\* closeAll of the route destroys the stream and ends the loop.
LogsDisconnect ==
    /\ lg.pc # "none"
    /\ lg' = [lg EXCEPT !.pc = "none", !.queue = <<>>]
    /\ UNCHANGED <<clog, cursorVars>>
    /\ UNCHANGED notLogs

\* The container writes a line at second sec; an attached stream carries it.
ContainerEmit(sec) ==
    /\ Len(clog) < MaxEmit
    /\ sec <= MaxSec
    /\ sec >= (IF clog = <<>> THEN 1 ELSE clog[Len(clog)])
    /\ clog' = Append(clog, sec)
    /\ lg' = IF lg.pc = "streaming"
             THEN [lg EXCEPT !.queue = Append(@, Len(clog) + 1)]
             ELSE lg
    /\ UNCHANGED cursorVars
    /\ UNCHANGED notLogs

LogsIdle ==
    /\ clog = <<>>
    /\ lg = NoLogConn

NextLogs ==
    \/ \E t \in TailParams : LogsConnect(t)
    \/ \E err \in BOOLEAN : AttachOnce(err)
    \/ \E n \in 1..MaxLines : LogStreamData(n)
    \/ LogStreamEnd
    \/ LogSleepDone
    \/ LogsDisconnect
    \/ \E sec \in 1..MaxSec : ContainerEmit(sec)

\* ------------------------------------------------------------------------
\* The agent's log stream route with its timers (agent index.ts,
\* /v1/servers/:id/logs/stream): closeAll, attachOnce, armInactivity and
\* the attach loop, on a clock in ms
\* ------------------------------------------------------------------------
MaxLoopTicks == 4    \* clock advances
MaxLoopEnds == 1     \* streams that end or fail, attaches that fail
MaxLoopData == 2     \* chunks delivered

InactivityMs == 20000
LoopSleepMs == 800
LoopTickMs == InactivityMs \div 2

\* a stream container.logs handed to its callback; timer is its
\* inactivityTimer
NoLogStream == [st |-> "live", timer |-> FALSE, armedAt |-> 0]

\* pc is where the loop stands: "inspect" and "logs" inside attachOnce
\* (awaiting container.inspect, awaiting the callback of container.logs),
\* "streaming" awaiting the promise of attachOnce, "sleep", "done"
NoLoop ==
    [pc |-> "none", closed |-> FALSE, t |-> 0, ticks |-> 0, streams |-> <<>>,
     activeStream |-> 0, cursor |-> NoSince, calls |-> 0, opts |-> NoOpts,
     ends |-> 0, data |-> 0, wake |-> 0, firedAt |-> 0, calledAt |-> 0]

\* armInactivity(): clearTimeout, then setTimeout(..., 20_000)
armInactivity(s, i) ==
    [s EXCEPT !.streams[i].timer = TRUE, !.streams[i].armedAt = s.t]

\* resolve() of the promise attachOnce awaits, and the loop after it:
\* `if (closed) break; await sleep(800);`
resolveAttachOnce(s) ==
    IF s.pc \notin {"logs", "streaming"} THEN s
    ELSE IF s.closed THEN [s EXCEPT !.pc = "done"]
    ELSE [s EXCEPT !.pc = "sleep", !.wake = s.t + LoopSleepMs]

\* attachOnce from its start to `await container.inspect()`
attachOnce(s) ==
    IF s.closed THEN resolveAttachOnce([s EXCEPT !.pc = "streaming"])
    ELSE [s EXCEPT !.pc = "inspect"]

\* the loop head `while (!closed)`
loopHead(s) ==
    IF s.closed THEN [s EXCEPT !.pc = "done"] ELSE attachOnce(s)

\* the route handler: the loop starts
LL_Connect ==
    /\ al.pc = "none"
    /\ al' = loopHead(al)
    /\ UNCHANGED notLoop

\* container.inspect() settled: container.logs(opts, callback) is called
LL_InspectSettled ==
    /\ al.pc = "inspect"
    /\ al' = [al EXCEPT !.pc = "logs", !.calls = @ + 1, !.calledAt = al.t,
                        !.opts = attachOpts(al.cursor, DefaultTail)]
    /\ UNCHANGED notLoop

\* the callback of container.logs with a stream
logsCallback(s) ==
    LET i == Len(s.streams) + 1
        s1 == [s EXCEPT !.streams = Append(@, NoLogStream)]
    IN  IF s.closed THEN resolveAttachOnce(s1)
        ELSE armInactivity([s1 EXCEPT !.activeStream = i, !.pc = "streaming"], i)

\* the callback of container.logs runs: with an error, or with a stream
LL_LogsCallback(err) ==
    /\ al.pc = "logs"
    /\ err => al.ends < MaxLoopEnds
    /\ al' = IF err
             THEN resolveAttachOnce([al EXCEPT !.ends = @ + 1])
             ELSE logsCallback(al)
    /\ UNCHANGED notLoop

\* the inactivity timer of stream i is due
inactivityDue(s, i) ==
    /\ s.streams[i].timer
    /\ s.t >= s.streams[i].armedAt + InactivityMs

\* 'data' of the current stream: onText; parsed says whether the chunk has
\* a line with a timestamp (the second it gives is that of the clock).  A
\* timer that is due runs before the callbacks of I/O (the timers phase of
\* the event loop comes first).
LL_Data(parsed) ==
    /\ al.pc = "streaming"
    /\ al.activeStream # 0
    /\ al.streams[al.activeStream].st = "live"
    /\ ~inactivityDue(al, al.activeStream)
    /\ al.data < MaxLoopData
    /\ al' = IF al.closed THEN [al EXCEPT !.data = @ + 1]
             ELSE [armInactivity(al, al.activeStream) EXCEPT
                      !.data = @ + 1,
                      !.cursor = IF parsed THEN 1 + (al.t \div 1000) ELSE @]
    /\ UNCHANGED notLoop

\* the inactivity timer that destroys the stream and leaves the loop waiting
onInactivityNoResolve(s, i) ==
    [s EXCEPT !.streams[i].timer = FALSE, !.streams[i].st = "destroyed",
              !.firedAt = s.t]

\* the callback of the inactivity timer of stream i: destroy, resolve
onInactivity(s, i) ==
    resolveAttachOnce([s EXCEPT !.streams[i].timer = FALSE,
                                !.streams[i].st = "destroyed",
                                !.firedAt = s.t])

LL_Inactivity(i) ==
    /\ i \in 1..Len(al.streams)
    /\ inactivityDue(al, i)
    /\ al' = onInactivity(al, i)
    /\ UNCHANGED notLoop

\* 'end' or 'error' of the current stream: finish()
LL_StreamEnd ==
    /\ al.pc = "streaming"
    /\ al.activeStream # 0
    /\ al.streams[al.activeStream].st = "live"
    /\ ~inactivityDue(al, al.activeStream)
    /\ al.ends < MaxLoopEnds
    /\ al' = resolveAttachOnce([al EXCEPT !.streams[al.activeStream].timer = FALSE,
                                         !.streams[al.activeStream].st = "ended",
                                         !.ends = @ + 1])
    /\ UNCHANGED notLoop

\* `await sleep(800)` is over
LL_SleepDone ==
    /\ al.pc = "sleep"
    /\ al' = loopHead([al EXCEPT !.t = al.wake])
    /\ UNCHANGED notLoop

\* closeAll of the route (ws 'close' or 'error')
logsCloseAll(s) ==
    IF s.closed THEN s
    ELSE [s EXCEPT !.closed = TRUE,
                   !.streams = IF s.activeStream = 0 THEN @
                               ELSE [@ EXCEPT ![s.activeStream].st =
                                        IF @ = "live" THEN "destroyed" ELSE @]]

LL_Close ==
    /\ al.pc # "none"
    /\ ~al.closed
    /\ al' = logsCloseAll(al)
    /\ UNCHANGED notLoop

\* the clock advances, not past a timer that is set
LL_Tick ==
    /\ al.pc \notin {"none", "sleep"}
    /\ al.ticks < MaxLoopTicks
    /\ \A i \in 1..Len(al.streams) :
          al.streams[i].timer => al.t + LoopTickMs <= al.streams[i].armedAt + InactivityMs
    /\ al' = [al EXCEPT !.t = @ + LoopTickMs, !.ticks = @ + 1]
    /\ UNCHANGED notLoop

LoopIdle == al = NoLoop

LoopTimers ==
    \/ LL_InspectSettled
    \/ \E i \in 1..Len(al.streams) : LL_Inactivity(i)
    \/ LL_SleepDone

NextLoop ==
    \/ LL_Connect
    \/ \E err \in BOOLEAN : LL_LogsCallback(err)
    \/ \E parsed \in BOOLEAN : LL_Data(parsed)
    \/ LL_StreamEnd
    \/ LL_Close
    \/ LL_Tick
    \/ LoopTimers

\* ------------------------------------------------------------------------
\* The browser client (frontend composable/useServerSocket.ts)
\* ------------------------------------------------------------------------
MaxFeSockets == 2    \* sockets the client creates
MaxFeConnects == 2   \* calls of connect() by the page

\* closed, reconnectTimer and ws.value of the closure; fetching counts the
\* connect() calls awaiting fetchToken(), socks are the readyStates of the
\* sockets created so far
NoFe ==
    [closed |-> FALSE, reconnectTimer |-> FALSE, ws |-> 0, fetching |-> 0,
     socks |-> <<>>, connects |-> 0]

\* WebSocket.close() of the browser
browserWsClose(st) == IF st \in {"CONNECTING", "OPEN"} THEN "CLOSING" ELSE st

\* `try { ws.value?.close() } catch {}; ws.value = null`
closeOld(s) ==
    [s EXCEPT !.socks = IF s.ws = 0 THEN @ ELSE [@ EXCEPT ![s.ws] = browserWsClose(@)],
              !.ws = 0]

\* scheduleReconnect(ms)
scheduleReconnect(s) ==
    IF s.closed \/ s.reconnectTimer THEN s ELSE [s EXCEPT !.reconnectTimer = TRUE]

\* connect() up to `await fetchToken()`
connect(s) ==
    IF s.closed THEN s ELSE [closeOld(s) EXCEPT !.fetching = @ + 1]

\* connect() after `await fetchToken()`: the catch block, or new WebSocket
connectResume(s, ok) ==
    LET s1 == [s EXCEPT !.fetching = @ - 1]
    IN  IF ~ok THEN scheduleReconnect(s1)
        ELSE [s1 EXCEPT !.socks = Append(@, "CONNECTING"), !.ws = Len(s.socks) + 1]

\* dispose()
dispose(s) ==
    closeOld([s EXCEPT !.closed = TRUE, !.reconnectTimer = FALSE])

\* the page calls connect()
FE_Connect ==
    /\ fe.connects < MaxFeConnects
    /\ fe' = connect([fe EXCEPT !.connects = @ + 1])
    /\ UNCHANGED notFe

\* the reconnect timer fires
FE_TimerFire ==
    /\ fe.reconnectTimer
    /\ fe' = connect([fe EXCEPT !.reconnectTimer = FALSE])
    /\ UNCHANGED notFe

\* fetchToken() of a connect() call settles
FE_TokenSettled(ok) ==
    /\ fe.fetching > 0
    /\ ok => Len(fe.socks) < MaxFeSockets
    /\ fe' = connectResume(fe, ok)
    /\ UNCHANGED notFe

\* sock.onopen
FE_SockOpen(i) ==
    /\ fe.socks[i] = "CONNECTING"
    /\ fe' = [fe EXCEPT !.socks[i] = "OPEN"]
    /\ UNCHANGED notFe

\* sock.onerror: sock.close()
FE_SockError(i) ==
    /\ fe.socks[i] \in {"CONNECTING", "OPEN"}
    /\ fe' = [fe EXCEPT !.socks[i] = browserWsClose(@)]
    /\ UNCHANGED notFe

\* sock.onclose
FE_SockClose(i) ==
    /\ fe.socks[i] \in {"CONNECTING", "OPEN", "CLOSING"}
    /\ fe' = scheduleReconnect([fe EXCEPT !.socks[i] = "CLOSED"])
    /\ UNCHANGED notFe

\* the page calls dispose()
FE_Dispose ==
    /\ ~fe.closed
    /\ fe' = dispose(fe)
    /\ UNCHANGED notFe

FeIdle == fe = NoFe

NextFe ==
    \/ FE_Connect
    \/ FE_TimerFire
    \/ \E ok \in BOOLEAN : FE_TokenSettled(ok)
    \/ \E i \in 1..Len(fe.socks) : FE_SockOpen(i)
    \/ \E i \in 1..Len(fe.socks) : FE_SockError(i)
    \/ \E i \in 1..Len(fe.socks) : FE_SockClose(i)
    \/ FE_Dispose

\* ------------------------------------------------------------------------
\* Request signing: the panel's signer (nodes/agent/agent-client.ts) and the
\* agent's hmacAuthHook (security/authHook.ts, registered by index.ts, and
\* the copy kept in docker/names.ts)
\* ------------------------------------------------------------------------
\* replay window, `Math.abs(Date.now() - ts) > 60_000`
ReplayWindowMs == 60000

\* Date.now() of the panel when it signs
SignTime == 2 * ReplayWindowMs

\* Date.now() of the agent when the hook runs
AgentTimes ==
    {SignTime + d : d \in {0, 59000, -59000, ReplayWindowMs, -ReplayWindowMs,
                           ReplayWindowMs + 1, -(ReplayWindowMs + 1), 61000, -61000}}

Abs(x) == IF x < 0 THEN -x ELSE x

\* data/identity.json of the agent; NoIdentity when the agent is not enrolled
NoIdentity == [nodeId |-> NULL, sharedSecret |-> NULL]
Enrolled == [nodeId |-> "n1", sharedSecret |-> "k1"]

\* node rows the panel may sign with: the enrolled one, one with another id,
\* one with another secret
PanelNodes ==
    {[id |-> "n1", sharedSecret |-> "k1"],
     [id |-> "n2", sharedSecret |-> "k1"],
     [id |-> "n1", sharedSecret |-> "k2"]}

\* crypto.createHmac("sha256", secret).update(data).digest("hex"), collision free
hmacSha256Hex(secret, data) == <<"hmac", secret, data>>

\* A hex header value: the digest it was made from and how it is written.
\*   "lower"  the 64 lower-case digits digest("hex") gives
\*   "upper"  the same digits, one letter digit in upper case
\*   "tail"   the same digits followed by "zz"
\*   "flip"   one digit replaced by a digit of another value
\*   "absent" the header is not there
Hex(digest) == [d |-> digest, form |-> "lower"]
AbsentHex == [d |-> <<>>, form |-> "absent"]

\* const EMPTY_SHA256 = "e3b0c442...", the hash of the empty string
EMPTY_SHA256 == Hex(sha256Hex(""))

\* a.length
hexLength(h) == IF h.form = "tail" THEN 66 ELSE IF h.form = "absent" THEN 0 ELSE 64

\* Buffer.from(a, "hex"): letter case is ignored, decoding stops at the first
\* character that is no hex digit
BufferFromHex(h) == IF h.form = "flip" THEN <<h.d, "flip">> ELSE <<h.d, "same">>

\* security/hmac.ts
safeEqualHex(a, b) == BufferFromHex(a) = BufferFromHex(b)

\* docker/names.ts: compares the characters
safeTimingEqualHex(a, b) ==
    IF hexLength(a) # hexLength(b) THEN FALSE ELSE a = b

\* X-Timestamp header: the text of a number, a text that is no number
\* (Number gives NaN), the text "Infinity", or no header
TsHeader(ms) == [k |-> "num", v |-> ms]
TsNaN == [k |-> "nan", v |-> 0]
TsAbsent == [k |-> "absent", v |-> 0]

\* Number.isFinite(Number(tsHeader))
isFiniteTs(ts) == ts.k = "num"

\* JavaScript values a body can be
Undefined == [t |-> "undefined", v |-> ""]
Null == [t |-> "null", v |-> "null"]
Str(text) == [t |-> "string", v |-> text]
Obj(json) == [t |-> "object", v |-> json]
False == [t |-> "boolean", v |-> "false"]

CanonJson == "{\"a\":1}"
SpacedJson == "{ \"a\": 1 }"
OtherJson == "{\"a\":2}"

\* !value
falsy(val) ==
    \/ val.t \in {"undefined", "null"}
    \/ val.t = "boolean" /\ val.v = "false"
    \/ val.t = "string" /\ val.v = ""

\* JSON.stringify(value) of an object, a boolean or null
JSONstringify(val) == val.v

\* JSON.parse(text)
JSONparse(text) ==
    CASE text = CanonJson -> Obj(CanonJson)
      [] text = SpacedJson -> Obj(CanonJson)
      [] text = OtherJson -> Obj(OtherJson)
      [] text = "false" -> False
      [] text = "null" -> Null

\* String.prototype.toUpperCase on a method name
toUpperCase(m) ==
    CASE m = "get" -> "GET"
      [] m = "post" -> "POST"
      [] OTHER -> m

\* a URL is its path and its query string ("" when it has no "?")
Url(path, query) == [path |-> path, query |-> query]

\* url.split("?")[0]
pathOnly(url) == url.path

\* the body a request carries on the wire, if any
NoWireBody == [sent |-> FALSE, text |-> ""]
WireBody(text) == [sent |-> TRUE, text |-> text]

NoReq ==
    [method |-> "GET", url |-> Url("", ""), ws |-> FALSE, body |-> NoWireBody,
     nodeId |-> NULL, ts |-> TsAbsent, bodyHash |-> AbsentHex, sig |-> AbsentHex]

\* agentSignedHeaders: bodyStr is Undefined or a string value
agentSignedHeaders(nodeId, sharedSecret, method, path, bodyStr, t) ==
    LET m == toUpperCase(method)
        ts == TsHeader(t)
        str == IF bodyStr.t = "undefined" THEN "" ELSE bodyStr.v
        bodyHash == Hex(sha256Hex(str))
        signingString == <<ts, m, pathOnly(path), bodyHash>>
    IN  [nodeId |-> nodeId, ts |-> ts, bodyHash |-> bodyHash,
         sig |-> Hex(hmacSha256Hex(sharedSecret, signingString))]

\* agentFetch: the request fetch() puts on the wire
agentFetch(nodeId, sharedSecret, path, method, body, t) ==
    LET m == toUpperCase(IF method = NULL THEN "GET" ELSE method)
        ts == TsHeader(t)
        bodyStr == IF body.t \in {"undefined", "null"} THEN ""
                   ELSE IF body.t = "string" THEN body.v
                   ELSE JSONstringify(body)
        bodyHash == Hex(sha256Hex(bodyStr))
        signingString == <<ts, m, pathOnly(path), bodyHash>>
    IN  [method |-> m, url |-> path, ws |-> FALSE,
         body |-> IF m \in {"GET", "HEAD"} THEN NoWireBody ELSE WireBody(bodyStr),
         nodeId |-> nodeId, ts |-> ts, bodyHash |-> bodyHash,
         sig |-> Hex(hmacSha256Hex(sharedSecret, signingString))]

\* The callers of agentSignedHeaders in servers.gateway.ts: a WebSocket
\* upgrade (`new WebSocket(url, {headers})`), or fetch() with the method and
\* the body string that were signed
signedSend(headers, method, path, bodyStr, ws) ==
    LET m == toUpperCase(method)
    IN  [method |-> m, url |-> path, ws |-> ws,
         body |-> IF ws \/ m \in {"GET", "HEAD"} \/ bodyStr.t = "undefined"
                  THEN NoWireBody ELSE WireBody(bodyStr.v),
         nodeId |-> headers.nodeId, ts |-> headers.ts,
         bodyHash |-> headers.bodyHash, sig |-> headers.sig]

\* req.body as the hook finds it: "In Fastify ist req.body schon geparst";
\* no payload is read for GET, HEAD and upgrades, an empty payload gives
\* no body
reqBody(w) ==
    IF w.ws \/ w.method \in {"GET", "HEAD"} \/ ~w.body.sent \/ w.body.text = ""
    THEN Undefined
    ELSE JSONparse(w.body.text)

\* getRawBody (security/authHook.ts), readRawBody (docker/names.ts)
getRawBody(body) ==
    IF falsy(body) THEN ""
    ELSE IF body.t = "string" THEN body.v
    ELSE JSONstringify(body)

Pass == [status |-> 200, error |-> ""]
Reject(status, error) == [status |-> status, error |-> error]

\* `skewMs > 60_000`
skewOutOfRange(t, tsNum) == Abs(t - tsNum) > ReplayWindowMs

\* security/authHook.ts hmacAuthHook: w the request, id loadIdentity(),
\* t Date.now()
hmacAuthHook(w, id, t) ==
    IF w.url.path = "/health" /\ w.url.query = "" THEN Pass
    ELSE IF id = NoIdentity THEN Reject(503, "Agent not enrolled")
    ELSE IF \/ w.nodeId = NULL
            \/ w.ts.k = "absent"
            \/ w.bodyHash.form = "absent"
            \/ w.sig.form = "absent"
         THEN Reject(401, "Missing auth headers")
    ELSE IF w.nodeId # id.nodeId THEN Reject(401, "Invalid node id")
    ELSE IF ~isFiniteTs(w.ts) THEN Reject(401, "Invalid timestamp")
    ELSE IF skewOutOfRange(t, w.ts.v) THEN Reject(401, "Timestamp out of range")
    ELSE IF Hex(sha256Hex(getRawBody(reqBody(w)))) # w.bodyHash
         THEN Reject(401, "Body hash mismatch")
    ELSE LET method == toUpperCase(w.method)
             signingString == <<w.ts, method, pathOnly(w.url), w.bodyHash>>
             computedSig == Hex(hmacSha256Hex(id.sharedSecret, signingString))
         IN  IF ~safeEqualHex(computedSig, w.sig)
             THEN Reject(401, "Bad signature")
             ELSE Pass

\* docker/names.ts
methodHasBody(method) == method \in {"POST", "PUT", "PATCH", "DELETE"}

\* docker/names.ts
getNodeSharedSecret(nodeId, id) ==
    IF id # NoIdentity /\ id.nodeId = nodeId THEN id.sharedSecret ELSE NULL

\* the replay window test of docker/names.ts with the limit itself excluded
timestampExpiredInclusive(t, ts) == Abs(t - ts) >= ReplayWindowMs

\* `Math.abs(Date.now() - ts) > 60_000` (docker/names.ts)
timestampExpired(t, ts) == Abs(t - ts) > ReplayWindowMs

\* docker/names.ts hmacAuthHook
names_hmacAuthHook(w, id, t) ==
    IF pathOnly(w.url) \in {"/health", "/ws-test"} THEN Pass
    ELSE IF \/ w.nodeId = NULL
            \/ w.ts.k = "absent"
            \/ w.sig.form = "absent"
            \/ w.bodyHash.form = "absent"
         THEN Reject(401, "Missing authentication headers")
    ELSE IF ~isFiniteTs(w.ts) THEN Reject(401, "Invalid timestamp")
    ELSE IF timestampExpired(t, w.ts.v) THEN Reject(401, "Timestamp expired")
    ELSE LET method == toUpperCase(w.method)
             computedBodyHash ==
                 IF ~w.ws /\ methodHasBody(method)
                 THEN Hex(sha256Hex(getRawBody(reqBody(w))))
                 ELSE EMPTY_SHA256
             sharedSecret == getNodeSharedSecret(w.nodeId, id)
             signingString == <<w.ts, method, pathOnly(w.url), computedBodyHash>>
             expectedSig == Hex(hmacSha256Hex(sharedSecret, signingString))
         \* `if (!computedBodyHash)` (428) is never taken: a digest is not empty
         IN  IF computedBodyHash # w.bodyHash
             THEN Reject(401, "Body hash mismatch")
             ELSE IF sharedSecret = NULL THEN Reject(401, "Unknown node")
             ELSE IF ~safeTimingEqualHex(w.sig, expectedSig)
                  THEN Reject(401, "Invalid signature")
                  ELSE Pass

Impls == {"security/authHook.ts", "docker/names.ts"}

\* the hook the agent runs
runHook(which, w, id, t) ==
    IF which = "docker/names.ts" THEN names_hmacAuthHook(w, id, t)
    ELSE hmacAuthHook(w, id, t)

NoSent == [by |-> "none", nodeId |-> NULL, sharedSecret |-> NULL, req |-> NoReq]
NoVerdict == [status |-> 0, error |-> ""]

\* what the panel passes to the signer
SignerPaths ==
    {Url("/v1/x", ""), Url("/v1/x", "tail=100"), Url("/health", ""),
     Url("/health", "x=1"), Url("/ws-test", "")}
SignerMethods == {"GET", "get", "POST", "DELETE", "HEAD"}
FetchBodies ==
    {Undefined, Null, Str(""), Str(CanonJson), Str(SpacedJson), Obj(CanonJson), False}
SignedBodyStrs == {Undefined, Str(""), Str(CanonJson)}

\* the panel calls agentFetch
SendFetch(node, path, method, body) ==
    /\ phase = "idle"
    /\ LET w == agentFetch(node.id, node.sharedSecret, path, method, body, SignTime)
       IN  /\ wire' = w
           /\ sent' = [by |-> "agentFetch", nodeId |-> node.id,
                       sharedSecret |-> node.sharedSecret, req |-> w]
    /\ phase' = "flight"
    /\ UNCHANGED <<impl, identity, alteration, anow, verdict>>
    /\ UNCHANGED notAuth

\* the panel calls agentSignedHeaders and sends the request itself
SendSigned(node, path, method, bodyStr, ws) ==
    /\ phase = "idle"
    /\ ws => toUpperCase(method) = "GET"
    /\ LET headers == agentSignedHeaders(node.id, node.sharedSecret, method, path,
                                         bodyStr, SignTime)
           w == signedSend(headers, method, path, bodyStr, ws)
       IN  /\ wire' = w
           /\ sent' = [by |-> "agentSignedHeaders", nodeId |-> node.id,
                       sharedSecret |-> node.sharedSecret, req |-> w]
    /\ phase' = "flight"
    /\ UNCHANGED <<impl, identity, alteration, anow, verdict>>
    /\ UNCHANGED notAuth

\* what can happen to a request between the signer and the hook
Alterations ==
    {"sigFlip", "sigUpper", "sigTail", "hashFlip", "bodyChange", "bodyReformat",
     "bodyAdd", "dropNodeId", "dropTs", "dropHash", "dropSig", "tsNaN", "pathChange"}

alterReq(w, k) ==
    CASE k = "sigFlip" -> [w EXCEPT !.sig.form = "flip"]
      [] k = "sigUpper" -> [w EXCEPT !.sig.form = "upper"]
      [] k = "sigTail" -> [w EXCEPT !.sig.form = "tail"]
      [] k = "hashFlip" -> [w EXCEPT !.bodyHash.form = "flip"]
      [] k = "bodyChange" -> [w EXCEPT !.body = WireBody(OtherJson)]
      [] k = "bodyReformat" -> [w EXCEPT !.body = WireBody(SpacedJson)]
      [] k = "bodyAdd" -> [w EXCEPT !.body = WireBody(CanonJson)]
      [] k = "dropNodeId" -> [w EXCEPT !.nodeId = NULL]
      [] k = "dropTs" -> [w EXCEPT !.ts = TsAbsent]
      [] k = "dropHash" -> [w EXCEPT !.bodyHash = AbsentHex]
      [] k = "dropSig" -> [w EXCEPT !.sig = AbsentHex]
      [] k = "tsNaN" -> [w EXCEPT !.ts = TsNaN]
      [] k = "pathChange" -> [w EXCEPT !.url.path = "/v1/y"]

alterApplies(w, k) ==
    CASE k = "bodyChange" -> w.body.sent /\ w.body.text \in {CanonJson, SpacedJson}
      [] k = "bodyReformat" -> w.body.sent /\ w.body.text = CanonJson
      [] k = "bodyAdd" -> ~w.body.sent
      [] OTHER -> TRUE

\* the request is changed on its way to the agent
Alter(k) ==
    /\ phase = "flight"
    /\ alteration = "none"
    /\ alterApplies(wire, k)
    /\ wire' = alterReq(wire, k)
    /\ alteration' = k
    /\ UNCHANGED <<impl, identity, phase, sent, anow, verdict>>
    /\ UNCHANGED notAuth

\* the request reaches the agent at time t: the preHandler hook runs
Verify(t) ==
    /\ phase = "flight"
    /\ anow' = t
    /\ verdict' = runHook(impl, wire, identity, t)
    /\ phase' = "done"
    /\ UNCHANGED <<impl, identity, sent, wire, alteration>>
    /\ UNCHANGED notAuth

AuthRest ==
    /\ phase = "idle"
    /\ sent = NoSent
    /\ wire = NoReq
    /\ alteration = "none"
    /\ anow = 0
    /\ verdict = NoVerdict

AuthIdle ==
    /\ impl = "security/authHook.ts"
    /\ identity = Enrolled
    /\ AuthRest

\* ------------------------------------------------------------------------
\* Node enrollment (panel-api nodes.service.ts)
\* ------------------------------------------------------------------------
MaxEnrollments == 1
MaxRegs == 2
DefaultTtlMinutes == 60

Regs == 1..MaxRegs
EnrollTokens == 1..MaxEnrollments
BogusEnrollToken == 0
DtoTokens == EnrollTokens \cup {BogusEnrollToken}
TtlMinutes == {1, DefaultTtlMinutes}
NotUsed == -1

sha256(input) == <<"sha256-base64url", input>>

\* createEnrollment: a fresh random token, its hash stored with the expiry.
createEnrollment(ttlMinutes) ==
    /\ Cardinality(enroll) < MaxEnrollments
    /\ LET token == Cardinality(enroll) + 1
       IN  enroll' = enroll \cup
               {[id |-> token, tokenHash |-> sha256(token),
                 expiresAt |-> now + ttlMinutes * 60000,
                 usedAt |-> NotUsed, nodeId |-> 0]}
    /\ UNCHANGED <<nodes, reg, outbox>>
    /\ UNCHANGED notEnroll

NoReg == [pc |-> "idle", token |-> BogusEnrollToken, enrollment |-> {},
          node |-> 0, outcome |-> "none"]

\* registerNode up to its first await: the hash of the presented token.
registerNode(r, token) ==
    /\ reg[r].pc = "idle"
    /\ \A q \in Regs : q < r => reg[q].pc # "idle"
    /\ reg' = [reg EXCEPT ![r] = [NoReg EXCEPT !.pc = "findUnique", !.token = token]]
    /\ UNCHANGED <<enroll, nodes, outbox>>
    /\ UNCHANGED notEnroll

\* prisma.nodeEnrollment.findUnique({ where: { tokenHash } })
enrollmentFindUnique(tokenHash) == {e \in enroll : e.tokenHash = tokenHash}

RN_findUnique(r) ==
    /\ reg[r].pc = "findUnique"
    /\ reg' = [reg EXCEPT ![r].pc = "check",
                          ![r].enrollment = enrollmentFindUnique(sha256(reg[r].token))]
    /\ UNCHANGED <<enroll, nodes, outbox>>
    /\ UNCHANGED notEnroll

\* The three guards after the lookup, on the row as it was read.
enrollmentRefusal(found, t) ==
    IF found = {} THEN "Invalid enrollment token"
    ELSE LET e == CHOOSE x \in found : TRUE
         IN  IF e.usedAt # NotUsed THEN "Token already used"
             ELSE IF e.expiresAt < t THEN "Token expired"
             ELSE "none"

RN_check(r) ==
    /\ reg[r].pc = "check"
    /\ LET why == enrollmentRefusal(reg[r].enrollment, now)
       IN  reg' = [reg EXCEPT ![r].pc = IF why = "none" THEN "create" ELSE "done",
                              ![r].outcome = why]
    /\ UNCHANGED <<enroll, nodes, outbox>>
    /\ UNCHANGED notEnroll

\* prisma.node.create with a fresh shared secret; `via` records the
\* enrollment token the creating call presented.
\* const sharedSecret = randomToken(32): a value no other column of any
\* row and no clock holds (ids, tokens and times are not negative)
randomSecret(n) == 0 - n

RN_create(r) ==
    /\ reg[r].pc = "create"
    /\ LET id == Cardinality(nodes) + 1
       IN  /\ nodes' = nodes \cup {[id |-> id, sharedSecret |-> randomSecret(id),
                                    via |-> reg[r].token]}
           /\ reg' = [reg EXCEPT ![r].pc = "update", ![r].node = id]
    /\ UNCHANGED <<enroll, outbox>>
    /\ UNCHANGED notEnroll

\* prisma.nodeEnrollment.update({ where: { id }, data: { usedAt, nodeId } })
enrollmentUpdate(rows, id, t, nodeId) ==
    {IF e.id = id THEN [e EXCEPT !.usedAt = t, !.nodeId = nodeId] ELSE e : e \in rows}

NoHeaders == <<>>
NoMessage == [kind |-> "none", rows |-> {}, headers |-> NoHeaders]

\* a message leaves: its JSON objects (rows) or its request headers
send(kind, rows, headers) ==
    outbox' = [kind |-> kind, rows |-> rows, headers |-> headers]

\* prisma `select`: the columns of a row that are returned
selectColumns(row, columns) == [c \in columns |-> row[c]]

nodeSelectAll == {"id", "sharedSecret", "via"}

\* the select list of listNodes and getNode, for the columns modelled
nodeSelect == {"id"}

RN_update(r) ==
    /\ reg[r].pc = "update"
    /\ LET e == CHOOSE x \in reg[r].enrollment : TRUE
       IN  enroll' = enrollmentUpdate(enroll, e.id, now, reg[r].node)
    /\ reg' = [reg EXCEPT ![r].pc = "done", ![r].outcome = "registered"]
    /\ LET node == CHOOSE n \in nodes : n.id = reg[r].node
       IN  send("registerNode",
                {[nodeId |-> node.id, sharedSecret |-> node.sharedSecret]}, NoHeaders)
    /\ UNCHANGED nodes
    /\ UNCHANGED notEnroll

\* NodesService.listNodes: findMany with the select list
listNodes ==
    /\ send("listNodes", {selectColumns(n, nodeSelect) : n \in nodes}, NoHeaders)
    /\ UNCHANGED <<enroll, nodes, reg>>
    /\ UNCHANGED notEnroll

\* NodesService.getNode(id): findUnique with the select list
getNode(id) ==
    /\ send("getNode", {selectColumns(n, nodeSelect) : n \in {x \in nodes : x.id = id}},
            NoHeaders)
    /\ UNCHANGED <<enroll, nodes, reg>>
    /\ UNCHANGED notEnroll

\* NodesService.authTest(nodeId, payload) up to the fetch of agentFetch: the
\* request headers are those of agentSignedHeaders
authTest(id, payload) ==
    /\ \E node \in nodes :
          /\ node.id = id
          /\ send("agentFetch", {},
                  agentSignedHeaders(node.id, node.sharedSecret, "POST",
                                     Url("/v1/auth-test", ""), Str(payload), now))
    /\ UNCHANGED <<enroll, nodes, reg>>
    /\ UNCHANGED notEnroll

\* the agent's GET /health answer once it holds the identity of node id;
\* of the identity it carries nodeId (`enrolled` is Boolean(id))
agentHealth(id) ==
    /\ \E node \in nodes :
          /\ node.id = id
          /\ \E r \in Regs : reg[r].pc = "done" /\ reg[r].node = id
          /\ send("health", {[nodeId |-> node.id]}, NoHeaders)
    /\ UNCHANGED <<enroll, nodes, reg>>
    /\ UNCHANGED notEnroll

EnrollIdle ==
    /\ enroll = {}
    /\ nodes = {}
    /\ reg = [r \in Regs |-> NoReg]
    /\ outbox = NoMessage

NextEnroll ==
    \/ Tick
    \/ \E m \in TtlMinutes : createEnrollment(m)
    \/ \E r \in Regs, t \in DtoTokens : registerNode(r, t)
    \/ \E r \in Regs : RN_findUnique(r)
    \/ \E r \in Regs : RN_check(r)
    \/ \E r \in Regs : RN_create(r)
    \/ \E r \in Regs : RN_update(r)
    \/ listNodes
    \/ \E id \in 1..MaxRegs : getNode(id)
    \/ \E id \in 1..MaxRegs, payload \in {CanonJson, SpacedJson} : authTest(id, payload)
    \/ \E id \in 1..MaxRegs : agentHealth(id)

\* ------------------------------------------------------------------------
\* The agent's console stream route (agent index.ts,
\* /v1/servers/:id/console/stream)
\* ------------------------------------------------------------------------
MaxConsMsgs == 2
MaxAttachFails == 1
MaxStreamEvents == 1

NoStream == 0

\* frames the panel sends: a JSON command ending in a line break, plain
\* text, a JSON command of white space only, and JSON that is no command
ConsoleFrames ==
    {[json |-> TRUE, type |-> "cmd", data |-> "stop\r\n", text |-> "{cmd stop}"],
     [json |-> FALSE, type |-> "", data |-> "", text |-> "list"],
     [json |-> TRUE, type |-> "cmd", data |-> " \n", text |-> "{cmd blank}"],
     [json |-> TRUE, type |-> "ping", data |-> "", text |-> "{ping}"]}

\* cmd.replace(/\r?\n/g, "").trim()
stripAndTrim(cmd) ==
    CASE cmd = "stop\r\n" -> "stop"
      [] cmd = " \n" -> ""
      [] OTHER -> cmd

\* the command a frame carries: obj.data of a JSON {type:"cmd"} frame,
\* else the text of the frame itself
consoleCmd(f) ==
    stripAndTrim(IF f.json /\ f.type = "cmd" THEN f.data ELSE f.text)

NoCons ==
    [started |-> FALSE, closed |-> FALSE, attaching |-> FALSE,
     stdinStream |-> NoStream, streams |-> <<>>, threads |-> {},
     nmsg |-> 0, nfail |-> 0, nevent |-> 0,
     owed |-> FALSE, reattached |-> FALSE, stdin |-> <<>>]

NoThread ==
    [key |-> 0, kind |-> "route", pc |-> "attach", nested |-> FALSE,
     cmd |-> "", reply |-> "none", written |-> FALSE,
     noStream |-> FALSE, attachingAtArrival |-> FALSE, closedAtEnd |-> FALSE]

WriteResults == {"true", "false", "throws"}

\* stdinStream?.destroy?.()
destroyStream(streams, id) ==
    IF id = NoStream THEN streams ELSE [streams EXCEPT ![id] = "destroyed"]

\* the try block at the end of the 'message' handler; w is what write()
\* does on a stream
writeLine(s, t, w) ==
    LET fin == [t EXCEPT !.pc = "done", !.closedAtEnd = s.closed]
    IN  IF s.stdinStream = NoStream
        THEN [s |-> s, t |-> [fin EXCEPT !.reply = "[agent] ok"]]
        ELSE IF w = "throws"
        THEN [s |-> [s EXCEPT !.streams = destroyStream(s.streams, s.stdinStream),
                              !.stdinStream = NoStream],
              t |-> [fin EXCEPT !.reply = "ERROR: write failed"]]
        ELSE [s |-> [s EXCEPT !.stdin =
                        IF s.streams[s.stdinStream] = "live"
                        THEN Append(@, t.cmd) ELSE @],
              t |-> [fin EXCEPT !.written = TRUE,
                                !.reply = IF w = "false" THEN "WARN: stdin backpressure"
                                          ELSE "[agent] ok"]]

\* attachStdin has returned to the code that awaited it: the finally blocks
\* of the failed invocations that were waiting on it run, then the caller
\* goes on (the 'message' handler writes, the others are finished)
returnFromAttach(s, t, w) ==
    LET s1 == IF t.nested THEN [s EXCEPT !.attaching = FALSE] ELSE s
        t1 == [t EXCEPT !.nested = FALSE]
    IN  IF t.kind = "msg" THEN writeLine(s1, t1, w)
        ELSE [s |-> s1, t |-> [t1 EXCEPT !.pc = "done"]]

\* a call of attachStdin up to its `await container.attach(...)`
callAttachStdin(s, t, w) ==
    IF s.closed \/ s.attaching
    THEN returnFromAttach(s, t, w)
    ELSE [s |-> [s EXCEPT !.attaching = TRUE,
                          !.streams = destroyStream(s.streams, s.stdinStream),
                          !.stdinStream = NoStream,
                          !.reattached = @ \/ s.owed,
                          !.owed = FALSE],
          t |-> [t EXCEPT !.pc = "attach"]]

\* `await sleep(800); await attachStdin()` of the catch block is skipped
\* when the connection is closed; the finally block follows
attachFailed(s, t, w) ==
    LET s1 == [s EXCEPT !.attaching = FALSE, !.nfail = @ + 1, !.owed = ~s.closed]
    IN  IF ~s.closed
        THEN [s |-> s1, t |-> [t EXCEPT !.pc = "sleep", !.nested = TRUE]]
        ELSE returnFromAttach(s1, t, w)

\* container.attach resolved: the stream becomes stdinStream, the finally
\* block clears `attaching`
attachSucceeded(s, t, w) ==
    LET id == Len(s.streams) + 1
    IN  returnFromAttach([s EXCEPT !.streams = Append(@, "live"),
                                   !.stdinStream = id,
                                   !.attaching = FALSE], t, w)

\* finished 'message' handlers are kept for their outcome, the other
\* finished callers are dropped
keepThreads(ts, old, t) ==
    (ts \ {old}) \cup (IF t.pc = "done" /\ t.kind # "msg" THEN {} ELSE {t})

commit(r, old) ==
    /\ cons' = [r.s EXCEPT !.threads = keepThreads(cons.threads, old, r.t)]
    /\ UNCHANGED notConsole

\* the route handler runs to its `await attachStdin()`
ConsoleConnect ==
    /\ ~cons.started
    /\ commit(callAttachStdin([cons EXCEPT !.started = TRUE], NoThread, "true"),
              NoThread)

\* a frame arrives: the 'message' handler up to its first await, or to
\* its end when a stream is attached
ConsoleMessage(f, w) ==
    /\ cons.started
    /\ cons.nmsg < MaxConsMsgs
    /\ LET s == [cons EXCEPT !.nmsg = @ + 1]
           t == [NoThread EXCEPT !.key = s.nmsg, !.kind = "msg",
                                 !.cmd = consoleCmd(f),
                                 !.noStream = (cons.stdinStream = NoStream),
                                 !.attachingAtArrival = cons.attaching]
       IN  IF cons.closed \/ consoleCmd(f) = ""
           THEN cons' = s /\ UNCHANGED notConsole
           ELSE IF cons.stdinStream = NoStream
           THEN commit(callAttachStdin(s, t, w), t)
           ELSE commit(writeLine(s, t, w), t)

\* container.attach of a waiting invocation resolves or rejects
AttachResolve(t, ok, w) ==
    /\ t \in cons.threads
    /\ t.pc = "attach"
    /\ ~ok => cons.nfail < MaxAttachFails
    /\ commit(IF ok THEN attachSucceeded(cons, t, w) ELSE attachFailed(cons, t, w), t)

\* the sleep before a retry is over
SleepDone(t, w) ==
    /\ t \in cons.threads
    /\ t.pc = "sleep"
    /\ commit(callAttachStdin(cons, t, w), t)

onStreamEventNoRetry(s, id, ev) ==
    [s EXCEPT !.attaching = FALSE,
              !.streams[id] = "dead",
              !.nevent = @ + 1,
              !.owed = ~s.closed]

\* 'end' or 'error' of a stream that was attached
onStreamEvent(s, id, ev) ==
    LET s1 == [s EXCEPT !.attaching = FALSE,
                        !.streams[id] = "dead",
                        !.nevent = @ + 1]
    IN  IF s.closed THEN s1
        ELSE [s1 EXCEPT !.owed = TRUE,
                        !.threads = @ \cup
                            {[NoThread EXCEPT !.key = id, !.kind = ev, !.pc = "sleep"]}]

StreamEvent(id, ev) ==
    /\ id \in 1..Len(cons.streams)
    /\ cons.streams[id] = "live"
    /\ cons.nevent < MaxStreamEvents
    /\ cons' = onStreamEvent(cons, id, ev)
    /\ UNCHANGED notConsole

\* ws 'close' or 'error': closeAll of the route
ConsoleClose ==
    /\ cons.started
    /\ ~cons.closed
    /\ cons' = [cons EXCEPT !.closed = TRUE,
                            !.streams = destroyStream(cons.streams, cons.stdinStream)]
    /\ UNCHANGED notConsole

ConsoleIdle == cons = NoCons

ConsoleTimers == \E t \in cons.threads, w \in WriteResults : SleepDone(t, w)

NextConsole ==
    \/ ConsoleConnect
    \/ \E f \in ConsoleFrames, w \in WriteResults : ConsoleMessage(f, w)
    \/ \E t \in cons.threads, ok \in BOOLEAN, w \in WriteResults : AttachResolve(t, ok, w)
    \/ ConsoleTimers
    \/ \E id \in 1..Len(cons.streams), ev \in {"end", "error"} : StreamEvent(id, ev)
    \/ ConsoleClose

\* ------------------------------------------------------------------------
\* ServerConsoleGateway.proxyConsole (panel-api, path /ws/console): one
\* browser socket relayed to the agent's console stream
\* ------------------------------------------------------------------------
MaxRelayMsgs == 2

NoCgw ==
    [started |-> FALSE, closed |-> FALSE, agentWs |-> "NONE",
     clientWs |-> [readyState |-> "NONE", code |-> 0],
     closedBy |-> "none", relayClosedBrowser |-> FALSE, up |-> 0, down |-> 0]

\* closeAll of proxyConsole, called by the listener `by`
proxyConsole_closeAll(s, by) ==
    IF s.closed THEN s
    ELSE [s EXCEPT !.closed = TRUE,
                   !.agentWs = safeClose(@),
                   !.clientWs = closeClient(@, 1000),
                   !.closedBy = by,
                   !.relayClosedBrowser = (s.clientWs.readyState = "OPEN")]

\* handleConnection has accepted the browser and calls proxyConsole; the
\* browser may have gone during the awaits of handleConnection
proxyConsole(rs) ==
    /\ ~cgw.started
    /\ cgw' = [NoCgw EXCEPT !.started = TRUE, !.agentWs = "CONNECTING",
                            !.clientWs.readyState = rs]
    /\ UNCHANGED notCgw

\* agentWs 'open'
PC_AgentOpen ==
    /\ cgw.agentWs = "CONNECTING"
    /\ cgw' = [cgw EXCEPT !.agentWs = "OPEN"]
    /\ UNCHANGED notCgw

\* agentWs 'message': relayed when the browser socket is OPEN
PC_AgentMessage ==
    /\ cgw.agentWs = "OPEN"
    /\ cgw.down < MaxRelayMsgs
    /\ cgw.clientWs.readyState = "OPEN"
    /\ cgw' = [cgw EXCEPT !.down = @ + 1]
    /\ UNCHANGED notCgw

\* agentWs 'error' (the socket is closing when ws emits it)
PC_AgentError ==
    /\ cgw.agentWs \in {"CONNECTING", "OPEN"}
    /\ cgw' = proxyConsole_closeAll([cgw EXCEPT !.agentWs = "CLOSING"], "agent error")
    /\ UNCHANGED notCgw

\* agentWs 'close'
PC_AgentClose ==
    /\ cgw.agentWs \in {"OPEN", "CLOSING", "ABORTING"}
    /\ cgw' = proxyConsole_closeAll([cgw EXCEPT !.agentWs = "CLOSED"], "agent close")
    /\ UNCHANGED notCgw

\* clientWs 'message': forwarded when agentWs is OPEN
PC_BrowserMessage ==
    /\ cgw.started
    /\ cgw.clientWs.readyState = "OPEN"
    /\ cgw.up < MaxRelayMsgs
    /\ cgw.agentWs = "OPEN"
    /\ cgw' = [cgw EXCEPT !.up = @ + 1]
    /\ UNCHANGED notCgw

\* clientWs 'close'
PC_BrowserClose ==
    /\ cgw.started
    /\ cgw.clientWs.readyState \in {"OPEN", "CLOSING"}
    /\ cgw' = proxyConsole_closeAll([cgw EXCEPT !.clientWs.readyState = "CLOSED"],
                                    "browser close")
    /\ UNCHANGED notCgw

\* clientWs 'error'
PC_BrowserError ==
    /\ cgw.started
    /\ cgw.clientWs.readyState = "OPEN"
    /\ cgw' = proxyConsole_closeAll([cgw EXCEPT !.clientWs.readyState = "CLOSING"],
                                    "browser error")
    /\ UNCHANGED notCgw

CgwIdle == cgw = NoCgw

NextConsoleGateway ==
    \/ \E rs \in {"OPEN", "CLOSED"} : proxyConsole(rs)
    \/ PC_AgentOpen
    \/ PC_AgentMessage
    \/ PC_AgentError
    \/ PC_AgentClose
    \/ PC_BrowserMessage
    \/ PC_BrowserClose
    \/ PC_BrowserError

\* ------------------------------------------------------------------------
\* Two calls of the signer (agent-client.ts agentSignedHeaders), to compare
\* their headers
\* ------------------------------------------------------------------------
SignInputs ==
    [nodeId : {"n1", "n2"}, sharedSecret : {"k1", "k2"},
     method : {"GET", "get", "POST"},
     path : {Url("/v1/x", ""), Url("/v1/x", "tail=100"), Url("/v1/y", "")},
     bodyStr : SignedBodyStrs, t : {SignTime, SignTime + 1}]

NoSign == [n |-> 0, in |-> <<>>, out |-> <<>>]

\* agentSignedHeaders(opts) called when Date.now() is in.t
signCall(in) ==
    agentSignedHeaders(in.nodeId, in.sharedSecret, in.method, in.path, in.bodyStr, in.t)

Sign(in) ==
    /\ sg.n < 2
    /\ sg' = [n |-> sg.n + 1, in |-> Append(sg.in, in), out |-> Append(sg.out, signCall(in))]
    /\ UNCHANGED notSign

SignIdle == sg = NoSign

NextSign == \E in \in SignInputs : Sign(in)

\* ------------------------------------------------------------------------
\* The relay
\* ------------------------------------------------------------------------
RelayIdle ==
    /\ now = 0
    /\ ticks = 0
    /\ wsToken = {}
    /\ minted = 0
    /\ tokenResp = {}
    /\ conn = [c \in Conns |-> NoConn]
    /\ clientWs = [c \in Conns |-> [readyState |-> "NONE", code |-> 0]]
    /\ sess = [c \in Conns |-> NoSess]
    /\ chan = [c \in Conns |-> [ch \in Channels |-> NoChan]]

Init ==
    /\ RelayIdle
    /\ AuthIdle
    /\ CursorIdle
    /\ LogsIdle
    /\ EnrollIdle
    /\ ConsoleIdle
    /\ CgwIdle
    /\ SignIdle
    /\ LoopIdle
    /\ FeIdle

PresentedTokens == {r.token : r \in tokenResp} \cup {BogusToken, NoToken}

NextTokens ==
    \/ \E u \in UserIds \cup {NULL}, s \in DOMAIN ServerTable : createAsyncToken(u, s)
    \/ Tick

NextHandshake(c) ==
    \/ \E s \in ServerIdParams \cup {NULL}, t \in PresentedTokens,
          u \in ConnUsers \cup {NULL} : handleConnection(c, s, t, u)
    \/ HC_findUnique(c)
    \/ HC_check(c)
    \/ HC_delete(c)
    \/ HC_resolve(c)

NextBrowser(c) ==
    \/ BrowserClose(c)
    \/ BrowserError(c)

NextCmd(c) ==
    \/ \E msg \in BrowserMsgs : ClientMessage(c, msg)
    \/ \E r \in {"settles", "rejects"} : Cmd_assertServerAccess(c, r)
    \/ \E r \in {"ok", "notok", "throws"} : Cmd_sendCommandToAgent(c, r)

NextAgent(c) ==
    \/ \E ch \in Channels : TimerFire(c, ch)
    \/ \E ch \in Channels, i \in 1..MaxSockets : AgentOpen(c, ch, i)
    \/ \E i \in 1..MaxSockets, t \in StatusTexts : AgentStatusMessage(c, i, t)
    \/ \E json \in PollBodies : PollStatus(c, json)
    \/ \E ch \in Channels, i \in 1..MaxSockets : AgentFail(c, ch, i)
    \/ \E ch \in Channels, i \in 1..MaxSockets : AgentError(c, ch, i)
    \/ \E ch \in Channels, i \in 1..MaxSockets : AgentClose(c, ch, i)

\* Concurrent connection attempts against the token store.
Next ==
    \/ NextTokens
    \/ \E c \in Conns : NextHandshake(c)

Spec == Init /\ [][Next]_vars

\* One browser connection, with every event of its session.
NextSession ==
    \/ \E u \in UserIds \cup {NULL}, s \in DOMAIN ServerTable : createAsyncToken(u, s)
    \/ NextHandshake(1)
    \/ NextBrowser(1)
    \/ NextAgent(1)
    \/ NextCmd(1)

SpecSession == Init /\ [][NextSession]_vars

\* One session and its logs channel, with the messages of the logs sockets
NextRelayLogs ==
    \/ \E u \in UserIds \cup {NULL}, s \in DOMAIN ServerTable : createAsyncToken(u, s)
    \/ NextHandshake(1)
    \/ NextBrowser(1)
    \/ TimerFire(1, "logs")
    \/ \E i \in 1..MaxSockets : AgentOpen(1, "logs", i)
    \/ \E i \in 1..MaxSockets : AgentFail(1, "logs", i)
    \/ \E i \in 1..MaxSockets : AgentError(1, "logs", i)
    \/ \E i \in 1..MaxSockets : AgentClose(1, "logs", i)
    \/ \E i \in 1..MaxSockets : AgentLogsMessage(1, i)

SpecRelayLogs == Init /\ [][NextRelayLogs]_vars

\* One session and its two sources of the server state: the status stream
\* and the polls, each poll with its request and its answer
NextStatus ==
    \/ \E u \in UserIds \cup {NULL}, s \in DOMAIN ServerTable : createAsyncToken(u, s)
    \/ NextHandshake(1)
    \/ NextBrowser(1)
    \/ TimerFire(1, "status")
    \/ \E i \in 1..MaxSockets : AgentOpen(1, "status", i)
    \/ \E i \in 1..MaxSockets : AgentFail(1, "status", i)
    \/ \E i \in 1..MaxSockets : AgentError(1, "status", i)
    \/ \E i \in 1..MaxSockets : AgentClose(1, "status", i)
    \/ \E i \in 1..MaxSockets, t \in StatusTexts : AgentStatusMessage(1, i, t)
    \/ PollIssue(1)
    \/ \E stale \in BOOLEAN, json \in PollBodies : PollArrive(1, stale, json)

SpecStatus == Init /\ [][NextStatus]_vars

\* The same session with timers that fire: a timer set with setTimeout runs
\* its callback after its delay.
SpecSessionFair ==
    SpecSession /\ \A ch \in Channels : WF_vars(TimerFire(1, ch))

\* Signed requests: the panel signs one request, something may change it in
\* flight, the agent's hook judges it
InitAuth ==
    /\ RelayIdle
    /\ CursorIdle
    /\ LogsIdle
    /\ EnrollIdle
    /\ ConsoleIdle
    /\ CgwIdle
    /\ SignIdle
    /\ LoopIdle
    /\ FeIdle
    /\ impl \in Impls
    /\ identity \in {NoIdentity, Enrolled}
    /\ AuthRest

NextAuth ==
    \/ \E node \in PanelNodes, path \in SignerPaths,
          method \in SignerMethods \cup {NULL}, body \in FetchBodies :
            SendFetch(node, path, method, body)
    \/ \E node \in PanelNodes, path \in SignerPaths, method \in SignerMethods,
          bodyStr \in SignedBodyStrs, ws \in BOOLEAN :
            SendSigned(node, path, method, bodyStr, ws)
    \/ \E k \in Alterations : Alter(k)
    \/ \E t \in AgentTimes : Verify(t)

SpecAuth == InitAuth /\ [][NextAuth]_vars

\* One log connection of the agent: chunks of log text arrive
NextCursor == \E text \in LogTexts : onText(text)

SpecCursor == Init /\ [][NextCursor]_vars

\* One browser session's log stream: the container writes lines, the
\* panel connects, the agent attaches, streams drop
SpecLogs == Init /\ [][NextLogs]_vars

\* One log connection of the agent with its timers; a timer that is due
\* runs its callback, and container.inspect() settles
SpecLoop == Init /\ [][NextLoop]_vars

SpecLoopFair == SpecLoop /\ WF_vars(LoopTimers)

\* One use of the browser client
SpecFe == Init /\ [][NextFe]_vars

SpecEnroll == Init /\ [][NextEnroll]_vars

SpecConsoleGateway == Init /\ [][NextConsoleGateway]_vars

SpecSign == Init /\ [][NextSign]_vars

SpecConsole == Init /\ [][NextConsole]_vars

\* the timers of sleep() fire
SpecConsoleFair == SpecConsole /\ WF_vars(ConsoleTimers)

\* ------------------------------------------------------------------------
\* Properties of the relay
\* ------------------------------------------------------------------------
Proxied(c) == conn[c].outcome = "proxying"

SubSocketsOpened(c) == \E ch \in Channels : chan[c][ch].n > 0

\* C1: for every raw token at most one connection attempt presenting it
\* reaches proxying, and an attempt that did not reach proxying has no
\* session and has opened no agent sub-socket.
C1_TokenSingleUse ==
    /\ \A t \in RawTokens :
          Cardinality({c \in Conns : conn[c].token = t /\ Proxied(c)}) <= 1
    /\ \A c \in Conns :
          ~Proxied(c) => ~sess[c].started /\ ~SubSocketsOpened(c)

\* Two attempts read the same valid row; one reached proxying, the other
\* lost the race on the delete.
C1_Witness ==
    \E c, d \in Conns :
       /\ c # d
       /\ conn[c].token = conn[d].token
       /\ Proxied(c) /\ SubSocketsOpened(c)
       /\ conn[d].found # {} /\ conn[d].pc = "done" /\ conn[d].outcome = "error"

\* C2: once closeAll has run for a session no agent sub-socket is created
\* for it any more, whatever timer or socket event comes next.
C2_NoConnectAfterCloseAll ==
    [][\A c \in Conns, ch \in Channels :
          sess[c].closed => chan'[c][ch].n = chan[c][ch].n]_vars

\* A reconnect timer that was pending at teardown has fired and created
\* nothing: more timer callbacks ran than reconnect sockets exist.
C2_Witness ==
    \E c \in Conns, ch \in Channels :
       /\ sess[c].closed
       /\ chan[c][ch].n >= 1
       /\ chan[c][ch].fired >= chan[c][ch].n

BrowserGone(c) == clientWs[c].readyState \in {"CLOSING", "CLOSED"}

TornDown(c) ==
    /\ \A ch \in Channels :
          /\ \A i \in 1..MaxSockets : ~Live(chan[c][ch].st[i])
          /\ chan[c][ch].timers = 0
    /\ ~sess[c].pollTimer

\* C7: whenever the browser socket has closed or errored, at whatever
\* point of handleConnection, the session is torn down: no agent
\* sub-socket connecting or open, no reconnect timer pending, no status
\* poll interval running.
C7_BrowserGoneTornDown ==
    \A c \in Conns : BrowserGone(c) => TornDown(c)

\* C8: a token returned for server S is stored with serverId = S, and a
\* connection that is the only one to present it, with serverId = S and
\* before it expires, reaches proxying.
C8_IssueConsumeRoundTrip ==
    \A r \in tokenResp :
       /\ \A row \in wsToken :
             row.tokenHash = sha256Hex(r.token) => row.serverId = r.serverId
       /\ \A c \in Conns :
             ( /\ conn[c].pc = "done"
               /\ conn[c].token = r.token
               /\ conn[c].serverId = r.serverId
               /\ conn[c].checkedAt # -1
               /\ conn[c].checkedAt < r.at + WsTokenTtlMs
               /\ \A d \in Conns : d # c => conn[d].token # r.token )
             => Proxied(c)

Checked(c) == conn[c].checkedAt # -1

\* C9 as stated: an attempt is rejected when the row is absent, its
\* serverId differs, or now >= expiresAt at the check.
C9_RejectedAtOrAfterExpiry ==
    \A c \in Conns :
       ( /\ Checked(c)
         /\ \/ conn[c].found = {}
            \/ \E row \in conn[c].found : row.serverId # conn[c].serverId
            \/ \E row \in conn[c].found : conn[c].checkedAt >= row.expiresAt )
       => conn[c].outcome = "Invalid token" /\ ~sess[c].started

\* C9 amended: an attempt is rejected, and never reaches proxying, when
\* the row is absent, its serverId differs, or now > expiresAt at the
\* check.
C9_RejectedAfterExpiry ==
    \A c \in Conns :
       ( /\ Checked(c)
         /\ \/ conn[c].found = {}
            \/ \E row \in conn[c].found : row.serverId # conn[c].serverId
            \/ \E row \in conn[c].found : conn[c].checkedAt > row.expiresAt )
       => conn[c].outcome = "Invalid token" /\ ~sess[c].started

\* An attempt with the right serverId was refused only because the token
\* had expired.
C9_Witness ==
    \E c \in Conns :
       /\ Checked(c)
       /\ \E row \in conn[c].found :
             /\ row.serverId = conn[c].serverId
             /\ conn[c].checkedAt > row.expiresAt
       /\ conn[c].outcome = "Invalid token"

\* ------------------------------------------------------------------------
\* Request signing claims
\* ------------------------------------------------------------------------
NonExempt(w) == pathOnly(w.url) \notin {"/health", "/ws-test"}

\* the body hash the hook is to expect for request w
ExpectedBodyHash(w) ==
    IF w.ws \/ ~methodHasBody(toUpperCase(w.method)) THEN EMPTY_SHA256
    ELSE Hex(sha256Hex(getRawBody(reqBody(w))))

TimestampExpiredErrors == {"Timestamp expired", "Timestamp out of range"}
InvalidSignatureErrors == {"Invalid signature", "Bad signature"}

\* C3: the hook lets a non-exempt request through only if the four headers
\* are present, the timestamp is finite and within 60000 ms of now, the body
\* hash header equals the expected body hash, the node id is the enrolled
\* one, and X-Signature equals the HMAC of the canonical string.
C3_PassOnlyIfAllChecksHold ==
    (phase = "done" /\ verdict = Pass /\ NonExempt(wire)) =>
        /\ wire.nodeId # NULL
        /\ wire.ts.k # "absent"
        /\ wire.bodyHash.form # "absent"
        /\ wire.sig.form # "absent"
        /\ isFiniteTs(wire.ts)
        /\ Abs(anow - wire.ts.v) <= ReplayWindowMs
        /\ wire.bodyHash = ExpectedBodyHash(wire)
        /\ identity # NoIdentity
        /\ wire.nodeId = identity.nodeId
        /\ wire.sig = Hex(hmacSha256Hex(identity.sharedSecret,
                            <<wire.ts, toUpperCase(wire.method), pathOnly(wire.url),
                              wire.bodyHash>>))

\* C4: a request built by agentFetch or agentSignedHeaders with the enrolled
\* node id and secret, delivered unmodified within the replay window, is
\* accepted by the hook, whatever its method, path and body.
C4_SignerVerifierRoundTrip ==
    (/\ phase = "done"
     /\ alteration = "none"
     /\ identity = Enrolled
     /\ sent.nodeId = Enrolled.nodeId
     /\ sent.sharedSecret = Enrolled.sharedSecret
     /\ Abs(anow - SignTime) <= ReplayWindowMs) => verdict = Pass

\* the request passes every check when it is verified at its own timestamp
OtherChecksValid ==
    /\ NonExempt(wire)
    /\ isFiniteTs(wire.ts)
    /\ runHook(impl, wire, identity, wire.ts.v) = Pass

\* C5: with every other check valid, a request with timestamp t0 is accepted
\* at any now with |now - t0| <= 60000 and rejected with the timestamp-expired
\* error when |now - t0| > 60000, for timestamps in the past and the future.
C5_ReplayWindow ==
    (phase = "done" /\ OtherChecksValid) =>
        IF Abs(anow - wire.ts.v) <= ReplayWindowMs
        THEN verdict = Pass
        ELSE verdict.status = 401 /\ verdict.error \in TimestampExpiredErrors

C5_Witness ==
    /\ phase = "done"
    /\ OtherChecksValid
    /\ anow - wire.ts.v = -ReplayWindowMs
    /\ verdict = Pass

\* C6: starting from a request the hook accepts, changing one hex character
\* of X-Signature or of X-Body-SHA256, or altering the body after signing,
\* always makes the hook reject: invalid signature for the signature, body
\* hash mismatch for the body hash header and the body.
C6_TamperAlwaysRejected ==
    (/\ phase = "done"
     /\ alteration \in {"sigFlip", "sigUpper", "hashFlip", "bodyChange",
                        "bodyReformat", "bodyAdd"}
     /\ NonExempt(sent.req)
     /\ runHook(impl, sent.req, identity, anow) = Pass) =>
        /\ verdict.status = 401
        /\ alteration \in {"sigFlip", "sigUpper"} =>
               verdict.error \in InvalidSignatureErrors
        /\ alteration \notin {"sigFlip", "sigUpper"} =>
               verdict.error = "Body hash mismatch"

\* ------------------------------------------------------------------------
\* Log cursor claims
\* ------------------------------------------------------------------------
\* the timestamp seconds parsed from a text
RECURSIVE ParsedSecs(_)
ParsedSecs(text) ==
    IF text = <<>> THEN {}
    ELSE LET ln == Head(text)
             ms == IF indexOfSpace(ln) <= 0 THEN NaN
                   ELSE DateParse(cleanFraction(sliceToSpace(ln)))
         IN  (IF ms = NaN THEN {} ELSE {ms \div 1000}) \cup ParsedSecs(Tail(text))

ParsedSoFar == UNION {ParsedSecs(fed[i]) : i \in 1..Len(fed)}

SetMax(S) == CHOOSE x \in S : \A y \in S : y <= x

\* C10: after any sequence of chunks lastSinceSec equals the maximum
\* timestamp second parsed so far (and is unset while none was parsed).
C10_CursorIsMaxParsed ==
    IF ParsedSoFar = {} THEN lastSinceSec = NoSince
    ELSE lastSinceSec = SetMax(ParsedSoFar)

\* ------------------------------------------------------------------------
\* Exempt paths
\* ------------------------------------------------------------------------
\* the hook has verified w: an identity exists and the signature decodes to
\* the HMAC of the canonical string under its secret
SignatureVerified(w) ==
    /\ identity # NoIdentity
    /\ w.nodeId = identity.nodeId
    /\ w.sig.form # "absent"
    /\ safeEqualHex(w.sig,
           Hex(hmacSha256Hex(identity.sharedSecret,
                 <<w.ts, toUpperCase(w.method), pathOnly(w.url), w.bodyHash>>)))

\* C20: the hook lets a request through without verification if and only if
\* its path, query string ignored, is /health: such a request passes whatever
\* its headers and whether or not an identity exists, and a request to any
\* other path passes only when verified.
C20_ExemptIffHealth ==
    phase = "done" =>
        /\ pathOnly(wire.url) = "/health" => verdict = Pass
        /\ (pathOnly(wire.url) # "/health" /\ verdict = Pass) => SignatureVerified(wire)

\* C16: every relay connection attempt that does not reach proxying ends
\* with the browser socket closed with code 1008.
C16_RejectedWith1008 ==
    \A c \in Conns :
        (conn[c].pc = "done" /\ conn[c].outcome # "proxying") =>
            /\ clientWs[c].readyState \in {"CLOSING", "CLOSED"}
            /\ clientWs[c].code = 1008

\* position of x in sequence q, 0 when it is not there
IndexOf(q, x) ==
    IF \E i \in 1..Len(q) : q[i] = x
    THEN CHOOSE i \in 1..Len(q) : q[i] = x
    ELSE 0

C13_ReconnectLiveness ==
    \A ch \in Channels : \A i \in 1..(MaxSockets - 1) :
        (chan[1][ch].st[i] = "CLOSED" /\ ~sess[1].closed)
            ~> (sess[1].closed \/ chan[1][ch].n > i)

\* C15: for every browser message {type: "cmd", data: string} handled while
\* the session is open, exactly one of two things happens: the command is
\* delivered to the agent once, or one {type: "error"} message is sent to
\* the browser.
C15_CmdDeliveredOrReported ==
    \A c \in Conns :
        LET cmd == sess[c].cmd
        IN  (cmd.pc = "done" /\ cmd.type = "cmd" /\ clientWs[c].readyState = "OPEN") =>
                cmd.delivered + cmd.errors = 1

C11_GapFreeResume ==
    /\ \A i, j \in 1..Len(lg.sent) : i < j => lg.sent[i] < lg.sent[j]
    /\ (lg.pc = "streaming" /\ lg.queue = <<>> /\ lg.sent # <<>>) =>
           \A x \in lg.sent[1]..Len(clog) : \E i \in 1..Len(lg.sent) : lg.sent[i] = x

\* C17: enrollment tokens are single-use under concurrency: whatever the
\* interleaving of registerNode calls, at most one Node is ever created by
\* calls that present the same enrollment token.
C17_EnrollmentSingleUse ==
    \A tok \in EnrollTokens : Cardinality({n \in nodes : n.via = tok}) <= 1

\* C18: while the console connection is not closed, every 'end' or 'error'
\* of an attached stdin stream and every failed attach is eventually followed
\* by another call of container.attach.
C18_AttachLoopLiveness ==
    (cons.owed /\ ~cons.closed) ~> (~cons.owed \/ cons.closed)

\* an attach attempt was made after a stream event or a failed attach, on a
\* connection that is still open
C18_Witness == cons.reattached /\ ~cons.closed

\* C19: a non-empty command that arrived while no stdin stream was attached
\* and whose handler has finished on a connection that is not closed was
\* written to a stream (or its write was reported as failed): it is not lost.
C19_AttachThenWrite ==
    \A t \in cons.threads :
        (t.kind = "msg" /\ t.pc = "done" /\ t.noStream /\ ~t.closedAtEnd)
            => (t.written \/ t.reply = "ERROR: write failed")

\* C21: every rejection of hmacAuthHook has status 401, or 428 for the
\* missing body hash precondition; no other status is produced for a
\* rejected request, also when the agent has no enrolled identity.
C21_RejectStatus ==
    (phase = "done" /\ verdict # Pass) => verdict.status \in {401, 428}

\* C22: an exception raised in a session's callback, the awaited access
\* check of the browser 'message' handler included, is caught for that
\* session: the session is torn down and its browser socket closed with the
\* internal-error code 1011; it never stays an unhandled rejection.
C22_ExceptionTearsDownSession ==
    \A c \in Conns :
        sess[c].cmd.pc = "unhandled" =>
            (sess[c].closed /\ clientWs[c].code = 1011)

\* C23: a close or error of an agent sub-socket never makes the relay close
\* the browser socket: the relay closes it only in closeAll, and closeAll
\* only runs on the browser socket's own 'close' or 'error'.
C23_AgentCloseKeepsBrowser ==
    cgw.closed => (cgw.closedBy \in {"browser close", "browser error"}
                   /\ ~cgw.relayClosedBrowser)

\* C24: each time an agent sub-socket of a session closes while the browser
\* socket is open, the browser is sent a {type: "agent", channel, status:
\* "disconnected"} message for that channel.
C24_DisconnectedReported ==
    \A c \in Conns, ch \in Channels : chan[c][ch].disc = chan[c][ch].closes

\* a status socket that never got a message and a logs socket have closed
\* while the browser socket was open
C24_Witness ==
    /\ chan[1]["logs"].closes > 0
    /\ \E i \in 1..MaxSockets :
          chan[1]["status"].st[i] = "CLOSED" /\ ~chan[1]["status"].got[i]
    /\ chan[1]["status"].closes > 0
    /\ clientWs[1].readyState = "OPEN"

\* C25: every {type: "state", value} message the relay sends to the browser
\* has a value among unknown, starting, running, stopped, crashed, whether
\* the status stream or the status poll produced it and whatever the agent
\* sent.
C25_StateValueInEnum ==
    \A c \in Conns : sess[c].sentState \in ServerStates \cup {"none"}

\* what the signer is given, with a method taken without regard to letter
\* case and a missing body taken as the empty body
SignedInput(in) ==
    [method |-> toUpperCase(in.method), path |-> in.path,
     body |-> IF in.bodyStr.t = "undefined" THEN "" ELSE in.bodyStr.v,
     sharedSecret |-> in.sharedSecret, t |-> in.t]

\* the inputs of the two calls differ in exactly one of method, path, body,
\* secret and timestamp, the node id being the same
OneInputChanged(a, b) ==
    /\ a.nodeId = b.nodeId
    /\ Cardinality({f \in {"method", "path", "body", "sharedSecret", "t"} :
                       SignedInput(a)[f] # SignedInput(b)[f]}) = 1

\* C26: signing twice with the same inputs and timestamp gives identical
\* headers, and changing any one of method, path, body, secret or timestamp
\* while keeping the others gives a different X-Signature.
C26_SignatureDeterminism ==
    sg.n = 2 =>
        /\ sg.in[1] = sg.in[2] => sg.out[1] = sg.out[2]
        /\ OneInputChanged(sg.in[1], sg.in[2]) => sg.out[1].sig # sg.out[2].sig

\* the SHA-256 of what the request carried: of the empty string for an
\* upgrade and for GET and HEAD, of the received body otherwise
ReceivedBodyHash(w) ==
    IF w.ws \/ toUpperCase(w.method) \in {"GET", "HEAD"} THEN EMPTY_SHA256
    ELSE Hex(sha256Hex(IF w.body.sent THEN w.body.text ELSE ""))

\* C27: the body hash the verifier expects is the SHA-256 of the empty
\* string for every WebSocket upgrade and every GET or HEAD request, and the
\* SHA-256 of the received body for POST, PUT, PATCH and DELETE: a request
\* passes only with that hash in X-Body-SHA256 and is refused for a body hash
\* mismatch only with another one.
C27_ExpectedBodyHash ==
    (phase = "done" /\ NonExempt(wire)) =>
        /\ verdict = Pass => wire.bodyHash = ReceivedBodyHash(wire)
        /\ verdict.error = "Body hash mismatch" =>
               wire.bodyHash # ReceivedBodyHash(wire)

\* C28: within the logs sub-channel the {type: "logs"} messages sent to the
\* browser carry the agent's log messages in the order the relay received
\* them: no message is sent before one that was received earlier.
C28_LogsInOrder ==
    \A c \in Conns : \A i, j \in 1..Len(sess[c].logsOut) :
        i < j => sess[c].logsOut[i] < sess[c].logsOut[j]

\* messages of two logs sockets of one session were relayed
C28_Witness ==
    /\ Len(sess[1].logsOut) >= 2
    /\ chan[1]["logs"].n >= 2

\* C29: a browser frame that is not valid JSON is tolerated and handled as
\* a command whose data is the text of the frame: like a {type: "cmd"}
\* message it ends in one delivery to the agent or one error message, and
\* the session is not closed by it.
C29_RawFrameIsCommand ==
    \A c \in Conns :
        LET cmd == sess[c].cmd
        IN  (cmd.type = "raw" /\ cmd.pc = "done" /\ clientWs[c].readyState = "OPEN") =>
                (cmd.delivered + cmd.errors = 1 /\ ~sess[c].closed)

\* the message m shows the value s: as a field of one of its JSON objects,
\* or as a request header that is not a digest (X-Node-Id, X-Timestamp);
\* X-Body-SHA256 and X-Signature are digests, and s may only be the key of
\* the HMAC
shows(m, s) ==
    \/ \E row \in m.rows : \E c \in DOMAIN row : row[c] = s
    \/ /\ m.kind = "agentFetch"
       /\ \/ m.headers.nodeId = s
          \/ m.headers.ts.v = s
          \/ m.headers.bodyHash.d[1] # "sha256"
          \/ m.headers.sig.d[1] # "hmac"

\* C30: apart from the answer of registerNode itself, no message the panel
\* or the agent sends shows the sharedSecret of a node: not the node listing
\* or detail answers, not the signed request headers (where the secret is
\* only the key of the HMAC), not the agent's health answer.
C30_SecretNeverSent ==
    outbox.kind \notin {"none", "registerNode"} =>
        \A n \in nodes : ~shows(outbox, n.sharedSecret)

\* a node is registered and the listing answers with its row
C30_Witness ==
    /\ outbox.kind = "listNodes"
    /\ \E row \in outbox.rows : \E r \in Regs :
          reg[r].outcome = "registered" /\ reg[r].node = row.id

\* C31 as stated: after any interleaving of status messages and poll
\* answers, lastState and the last {type:"state"} message sent are the value
\* of the setState call made most recently.
C31_LastWriteWins ==
    sess[1].applied # "none" =>
        /\ sess[1].lastState = sess[1].applied
        /\ sess[1].sentState = sess[1].applied

\* C31, amended: lastState is the value of the setState call made most
\* recently, with no staleness check, and so is the last {type:"state"}
\* message sent as long as the browser socket is OPEN; a poll answer whose
\* request went out before a status message overwrites the value of that
\* message.
C31_LastWriteWinsWhileOpen ==
    sess[1].applied # "none" =>
        /\ sess[1].lastState = sess[1].applied
        /\ clientWs[1].readyState = "OPEN" => sess[1].sentState = sess[1].applied

\* the answer of a poll issued before a status message has been applied
\* after it and sent to the browser
C31_Witness ==
    /\ sess[1].staleWin
    /\ clientWs[1].readyState = "OPEN"
    /\ sess[1].sentState = sess[1].applied
    /\ sess[1].lastState = sess[1].applied

\* the inactivity timer of the stream attached by call n of container.logs
\* is due while the connection is open
C32_Due(n) ==
    /\ ~al.closed
    /\ al.calls = n
    /\ al.pc = "streaming"
    /\ al.activeStream # 0
    /\ al.streams[al.activeStream].st = "live"
    /\ inactivityDue(al, al.activeStream)

\* that stream is destroyed and, unless the connection is closed,
\* container.logs has been called again, 800 ms or more after the timer
\* ran, with the cursor when there is one
C32_Resumed(n) ==
    /\ al.activeStream # 0
    /\ al.streams[al.activeStream].st = "destroyed"
    /\ \/ al.closed
       \/ /\ al.calls = n + 1
          /\ al.calledAt >= al.firedAt + LoopSleepMs
          /\ al.cursor # NoSince => al.opts = [since |-> al.cursor, tail |-> 0]
          /\ al.cursor = NoSince => al.opts = [since |-> NoSince, tail |-> DefaultTail]

C38_LogStreamsDestroyed ==
    al.closed => \A i \in 1..Len(al.streams) : al.streams[i].st # "live"

\* the step of the verifier an error message belongs to
C33_Step(error) ==
    CASE error \in {"Missing auth headers", "Missing authentication headers"} -> 1
      [] error = "Invalid timestamp" -> 2
      [] error \in {"Timestamp out of range", "Timestamp expired"} -> 3
      [] error = "Body hash mismatch" -> 4
      [] error \in {"Invalid node id", "Unknown node"} -> 5
      [] error \in {"Bad signature", "Invalid signature"} -> 6
      [] OTHER -> 0

\* C33: a rejected request gets the error of the earliest step it fails, in
\* the order missing headers, invalid timestamp, timestamp expired, body
\* hash mismatch, unknown node, invalid signature: an error of a later step
\* is only given to a request that has its four headers, a finite
\* timestamp inside the replay window and, for the signature error, the
\* node id of the agent.
C33_EarliestFailingStep ==
    (phase = "done" /\ verdict # Pass) =>
        LET k == C33_Step(verdict.error)
        IN  /\ k >= 2 => /\ wire.nodeId # NULL
                         /\ wire.ts.k # "absent"
                         /\ wire.bodyHash.form # "absent"
                         /\ wire.sig.form # "absent"
            /\ k >= 3 => isFiniteTs(wire.ts)
            /\ k >= 4 => Abs(anow - wire.ts.v) <= ReplayWindowMs
            /\ k >= 6 => wire.nodeId = identity.nodeId

\* C34: once dispose() has been called the browser client opens no new
\* WebSocket, whatever was pending when it was called (a connect() awaiting
\* its token, a reconnect timer).
C34_NoSocketAfterDispose ==
    [][fe.closed => Len(fe'.socks) = Len(fe.socks)]_vars

\* C35: once closeAll of the console connection has run, no stdin stream
\* of the connection is left attached and not destroyed, also when
\* container.attach was pending or a reattach was sleeping at that time.
C35_NoStdinStreamAfterClose ==
    cons.closed => \A i \in 1..Len(cons.streams) : cons.streams[i] # "live"

\* C36: no command is sent to the agent for a session whose closeAll has
\* run: a 'message' handler that was awaiting the access check when the
\* browser left does not go on to the POST of sendCommandToAgent.
C36_NoCommandAfterCloseAll ==
    [][\A c \in Conns :
          ~(sess[c].closed /\ sess[c].cmd.pc = "access" /\ sess'[c].cmd.pc = "fetch")]_vars

\* C37: in every state of a relay session each channel has at most one
\* reconnect loop: at most one of its sockets is connecting or open, a
\* reconnect timer is never pending while one is, and never two timers
\* are pending.
C37_OneReconnectLoop ==
    \A c \in Conns : \A ch \in Channels :
        LET k == chan[c][ch]
            live == {i \in 1..MaxSockets : Live(k.st[i])}
        IN  /\ Cardinality(live) <= 1
            /\ k.timers <= 1
            /\ ~(live # {} /\ k.timers > 0)

\* a channel's second socket is connecting or open after the reconnect
\* timer set by the close of the first has fired
C37_Witness ==
    \E ch \in Channels :
        /\ chan[1][ch].n >= 2
        /\ chan[1][ch].fired >= 1
        /\ Live(chan[1][ch].st[2])
        /\ ~sess[1].closed

\* C39: no step of handleConnection changes the token store except its
\* wsToken.delete, which it reaches only with a token it has accepted and
\* which removes the record of that token and nothing else; an attempt
\* rejected for its parameters or its token leaves the store as it was.
C39_StoreChangedOnlyByConsume ==
    [][\A c \in Conns :
          conn'[c] # conn[c] =>
             IF conn[c].pc = "delete"
             THEN /\ ~tokenInvalid(conn[c].found, conn[c].serverId, conn[c].checkedAt)
                  /\ ~tokenUserMismatch(conn[c].found, conn[c].user)
                  /\ wsToken' = wsToken \ conn[c].found
             ELSE wsToken' = wsToken]_vars

\* an attempt was rejected for its token while the record of that token
\* is in the store
C39_Witness ==
    \E c \in Conns :
        /\ conn[c].outcome \in {"Invalid token", "Token user mismatch"}
        /\ conn[c].found # {}
        /\ conn[c].found \subseteq wsToken

====
